---- MODULE Spec2Model ----
(***************************************************************************)
(* Video pipeline of axon-vision-ha: VideoStreamer -> MotionDetector ->    *)
(* VideoDisplay -> WebStreamer, connected by ZeroMQ PUSH/PULL sockets      *)
(* (ZMQManager), with the display's PipelineLogger pushing log records on  *)
(* the logging endpoint.                                                   *)
(*                                                                         *)
(* Each component owns a loop thread (pc) and is driven by a caller thread *)
(* that runs start_*() and stop_*() (caller).  One loop iteration is one   *)
(* atomic step.  Wall-clock time is not modelled: a receive that times     *)
(* out changes nothing, and the 2 s join timeout of stop_*() is a          *)
(* nondeterministic choice while the loop thread is still alive.           *)
(*                                                                         *)
(* An endpoint is one queue of at most HWM undelivered messages; closing a *)
(* socket does not touch the messages already queued on the endpoint.      *)
(***************************************************************************)
EXTENDS Integers, Sequences, FiniteSets, TLC

\* ------------------------------------------------------------------ bounds
\* Length of the long video: enough frames to fill one endpoint
\* (HWM messages), lose a frame, and send again after a drain.
LongVideoLen == 11
\* Longest video of the runs in which components are restarted.
ShortVideoLen == 2
\* Number of start_*() calls explored on the operated component.
MaxStarts == 2
\* Number of stop_*() calls explored on the operated component.
MaxStops == 1
\* Number of faults explored on the operated component: socket starts that
\* fail, and exceptions raised while a received message is processed.
MaxFails == 1
\* Frame geometry of the modelled videos (pixels).
\* Number of undecodable messages of a foreign producer found queued on an
\* endpoint.
MaxForeign == 1

FrameWidth == 640
FrameHeight == 480

\* ------------------------------------------------------- program constants
\* zmq.SNDHWM / zmq.RCVHWM set on every socket.
HWM == 10
\* MotionDetector.__init__ defaults.
threshold == 25
min_area == 500
dilate_iterations == 2
\* Divisor of the confidence formula, min(1.0, area / 10000.0).
ConfidenceScale == 10000

None == "None"

Min(a, b) == IF a < b THEN a ELSE b
Max(a, b) == IF a > b THEN a ELSE b
Abs(a) == IF a < 0 THEN 0 - a ELSE a


\* ------------------------------------------------------------------ frames
(***************************************************************************)
(* A frame is a FrameWidth x FrameHeight BGR image.  The modelled videos   *)
(* show a uniform black background on which a few fixed, well separated    *)
(* rectangles take a colour of their own; an image is given by the BGR     *)
(* colour of each rectangle.  All pixels of one rectangle are equal, so    *)
(* every per-pixel step of the detector is computed per rectangle.         *)
(***************************************************************************)
Regions == {"big1", "big2", "small", "edge", "exact", "huge"}

Rect(r) ==
    CASE r = "big1"  -> [x |-> 100, y |-> 100, w |-> 30, h |-> 30]
      [] r = "big2"  -> [x |-> 400, y |-> 300, w |-> 40, h |-> 30]
      [] r = "small" -> [x |-> 300, y |-> 50,  w |-> 10, h |-> 10]
      [] r = "edge"  -> [x |-> 200, y |-> 200, w |-> 20, h |-> 22]
      [] r = "exact" -> [x |-> 500, y |-> 100, w |-> 20, h |-> 25]
      [] r = "huge"  -> [x |-> 50,  y |-> 300, w |-> 120, h |-> 100]

Black == <<0, 0, 0>>
White == <<255, 255, 255>>

\* The images the modelled videos are made of.
Scene(name) ==
    CASE name = "bg"    -> [r \in Regions |-> Black]
      [] name = "one"   -> [r \in Regions |-> IF r = "big1" THEN White ELSE Black]
      [] name = "two"   -> [r \in Regions |-> IF r \in {"big1", "big2"} THEN White ELSE Black]
      [] name = "small" -> [r \in Regions |-> IF r = "small" THEN White ELSE Black]

Scenes == {"bg", "one", "two", "small"}

\* cv2.cvtColor(frame, cv2.COLOR_BGR2GRAY): OpenCV's 14-bit fixed point
\* luminance of one BGR pixel.
BGR2GRAY(px) == (px[1] * 1868 + px[2] * 9617 + px[3] * 4899 + 8192) \div 16384

cvtColor(frame) == [r \in Regions |-> BGR2GRAY(frame[r])]

\* cv2.absdiff(gray_frame, prev_frame)
absdiff(a, b) == [r \in Regions |-> Abs(a[r] - b[r])]

\* Mutation: a difference equal to the threshold counts as motion.
threshold_binary_inclusive(diff, thresh) ==
    [r \in Regions |-> IF diff[r] >= thresh THEN 255 ELSE 0]

\* cv2.threshold(diff, thresh, 255, cv2.THRESH_BINARY)[1]:
\* dst = 255 where src > thresh, else 0.
threshold_binary(diff, thresh) == [r \in Regions |-> IF diff[r] > thresh THEN 255 ELSE 0]

\* cv2.dilate(mask, None, iterations = n): the 3x3 structuring element grows
\* each foreground rectangle by n pixels on every side, clipped to the frame.
\* The result is the set of foreground rectangles.
dilate(mask, n) ==
    { [x |-> Max(0, Rect(r).x - n),
       y |-> Max(0, Rect(r).y - n),
       w |-> Min(FrameWidth, Rect(r).x + Rect(r).w + n) - Max(0, Rect(r).x - n),
       h |-> Min(FrameHeight, Rect(r).y + Rect(r).h + n) - Max(0, Rect(r).y - n)]
      : r \in {q \in Regions : mask[q] = 255} }

\* Two rectangles are 8-connected when they overlap or touch, corners included.
Touch(a, b) ==
    /\ a.x <= b.x + b.w /\ b.x <= a.x + a.w
    /\ a.y <= b.y + b.h /\ b.y <= a.y + a.h

\* The rectangles stay apart after dilation, so that every connected region
\* of the dilated mask is one rectangle.
RegionsSeparated ==
    \A p, q \in Regions :
        p # q => ~Touch([x |-> Rect(p).x - dilate_iterations - 1,
                         y |-> Rect(p).y - dilate_iterations - 1,
                         w |-> Rect(p).w + 2 * (dilate_iterations + 1),
                         h |-> Rect(p).h + 2 * (dilate_iterations + 1)],
                        [x |-> Rect(q).x - dilate_iterations - 1,
                         y |-> Rect(q).y - dilate_iterations - 1,
                         w |-> Rect(q).w + 2 * (dilate_iterations + 1),
                         h |-> Rect(q).h + 2 * (dilate_iterations + 1)])

\* cv2.findContours(mask, RETR_EXTERNAL, CHAIN_APPROX_SIMPLE) and
\* imutils.grab_contours: one contour per connected region; the order is the
\* library's, here bottom-most region first.
RECURSIVE findContours(_)
findContours(rects) ==
    IF rects = {} THEN <<>>
    ELSE LET c == CHOOSE a \in rects : \A b \in rects : a.y > b.y \/ (a.y = b.y /\ a.x >= b.x)
         IN  <<c>> \o findContours(rects \ {c})

\* Mutation: the area is the number of pixels of the region.
contourArea_pixels(c) == c.w * c.h

\* cv2.contourArea of the contour of a solid w x h rectangle: the polygon
\* through the centres of its corner pixels.
contourArea(c) == (c.w - 1) * (c.h - 1)

\* cv2.boundingRect(contour)
boundingRect(c) == <<c.x, c.y, c.w, c.h>>

\* Mutation: the confidence is not capped.
Confidence_uncapped(area) == area

\* min(1.0, area / 10000.0), as the numerator of a fraction over
\* ConfidenceScale.
Confidence(area) == Min(ConfidenceScale, area)

\* Mutation: a contour is kept only when its area is above min_area.
RECURSIVE ContoursToDetections_exclusive(_, _)
ContoursToDetections_exclusive(cnts, minArea) ==
    IF cnts = <<>> THEN <<>>
    ELSE LET area == contourArea(Head(cnts))
             rest == ContoursToDetections_exclusive(Tail(cnts), minArea)
         IN  IF area > minArea
             THEN <<[bbox |-> boundingRect(Head(cnts)),
                     confidence |-> Confidence(area),
                     detection_type |-> "motion",
                     area |-> area]>> \o rest
             ELSE rest

\* The loop over the contours: one Detection per contour of area >= min_area.
RECURSIVE ContoursToDetections(_, _)
ContoursToDetections(cnts, minArea) ==
    IF cnts = <<>> THEN <<>>
    ELSE LET area == contourArea(Head(cnts))
             rest == ContoursToDetections(Tail(cnts), minArea)
         IN  IF area >= minArea
             THEN <<[bbox |-> boundingRect(Head(cnts)),
                     confidence |-> Confidence(area),
                     detection_type |-> "motion",
                     area |-> area]>> \o rest
             ELSE rest

\* Steps 1-5 of _process_frame for a frame with a stored previous frame, for
\* a detector constructed with the given settings ...
detect_motion(gray_frame, prev_frame, thresh, minArea, iterations) ==
    ContoursToDetections(
        findContours(dilate(threshold_binary(absdiff(gray_frame, prev_frame), thresh),
                            iterations)),
        minArea)

\* ... and for the detector of the pipeline, constructed with the defaults.
DetectMotion(gray_frame, prev_frame) ==
    detect_motion(gray_frame, prev_frame, threshold, min_area, dilate_iterations)

\* Gray images of the scenes and the detections between any two of them,
\* computed once.
GrayOf[s \in Scenes] == cvtColor(Scene(s))

MotionBetween[p \in Scenes, c \in Scenes] == DetectMotion(GrayOf[c], GrayOf[p])


\* ---------------------------------------------------------------- messages
\* core/data_models.py.  Timestamps, processing times and the metadata maps
\* are left out: no statement of this development reads them.  A frame is
\* carried as the name of its scene.
FrameData_create(frame_id, frame) ==
    [kind |-> "FrameData", frame_id |-> frame_id, frame |-> frame]

\* Mutation: the result is numbered one after the frame.
DetectionResult_create_renumbered(frame_data, detections) ==
    [kind |-> "DetectionResult", frame_id |-> frame_data.frame_id + 1,
     frame |-> frame_data.frame, detections |-> detections]

DetectionResult_create(frame_data, detections) ==
    [kind |-> "DetectionResult", frame_id |-> frame_data.frame_id,
     frame |-> frame_data.frame, detections |-> detections]

SystemMessage(message_type, payload) ==
    [kind |-> "SystemMessage", message_type |-> message_type, payload |-> payload]

\* A Python value kept in a metadata dictionary: a tuple or a list of
\* integers.  A dictionary is a function from its keys; {} is EmptyDict.
PyTuple(items) == [py |-> "tuple", items |-> items]
PyList(items) == [py |-> "list", items |-> items]
EmptyDict == <<>>

LogMessage(level, component, message, metadata) ==
    [kind |-> "LogMessage", level |-> level, component |-> component,
     message |-> message, metadata |-> metadata]

LogMessage_create(level, component, message) ==
    LogMessage(level, component, message, EmptyDict)

PerformanceMetrics(fps, latency_ms, memory_usage_mb, cpu_usage_percent, queue_depth) ==
    [kind |-> "PerformanceMetrics", fps |-> fps, latency_ms |-> latency_ms,
     memory_usage_mb |-> memory_usage_mb, cpu_usage_percent |-> cpu_usage_percent,
     queue_depth |-> queue_depth]

\* communication/protocol.py: the type identifiers of MessageProtocol.
FRAME_DATA == "frame_data"
DETECTION_RESULT == "detection_result"
SYSTEM_MESSAGE == "system_message"
PERFORMANCE_METRICS == "performance_metrics"
LOG_MESSAGE == "log_message"

\* The serialize_* methods: frames and results are pickled, the other kinds
\* are JSON text.  The wire data records the format and the dictionary.
serialize_frame_data(m) ==
    [fmt |-> "pickle", type |-> FRAME_DATA,
     obj |-> [frame_id |-> m.frame_id, frame |-> m.frame]]

\* The dictionary made of a Detection, and the Detection made of it again.
Detection(bbox, confidence, detection_type, area) ==
    [bbox |-> bbox, confidence |-> confidence, detection_type |-> detection_type,
     area |-> area]

detections_data(detections) ==
    [i \in 1..Len(detections) |->
        [bbox |-> detections[i].bbox, confidence |-> detections[i].confidence,
         detection_type |-> detections[i].detection_type, area |-> detections[i].area]]

serialize_detection_result(m) ==
    [fmt |-> "pickle", type |-> DETECTION_RESULT,
     obj |-> [frame_id |-> m.frame_id, frame |-> m.frame,
              detections |-> detections_data(m.detections)]]

serialize_system_message(m) ==
    [fmt |-> "json", type |-> SYSTEM_MESSAGE,
     obj |-> [message_type |-> m.message_type, payload |-> m.payload]]

\* json.dumps followed by json.loads: JSON has arrays only, so a tuple comes
\* back as a list; integers and strings come back as they were.
json_value(v) == IF v.py = "tuple" THEN PyList(v.items) ELSE v

json_dict(d) == [k \in DOMAIN d |-> json_value(d[k])]

serialize_performance_metrics(m) ==
    [fmt |-> "json", type |-> PERFORMANCE_METRICS,
     obj |-> [fps |-> m.fps, latency_ms |-> m.latency_ms,
              memory_usage_mb |-> m.memory_usage_mb,
              cpu_usage_percent |-> m.cpu_usage_percent,
              queue_depth |-> m.queue_depth]]

serialize_log_message(m) ==
    [fmt |-> "json", type |-> LOG_MESSAGE,
     obj |-> [level |-> m.level, component |-> m.component, message |-> m.message,
              metadata |-> json_dict(m.metadata)]]

\* MessageProtocol.deserialize.  json.loads succeeds on JSON text only and
\* pickle.loads on pickled data only; a dictionary lookup raises KeyError
\* when the key is missing.
json_loads_ok(data) == data.fmt = "json"

pickle_loads_ok(data) == data.fmt = "pickle"

HasKeys(obj, keys) == keys \subseteq DOMAIN obj

\* The formats deserialize attempts on data, in order: JSON always, and
\* pickle whenever the JSON attempt did not return a message.
parse_attempts(data) ==
    IF json_loads_ok(data) /\ data.type \in {SYSTEM_MESSAGE, PERFORMANCE_METRICS, LOG_MESSAGE}
    THEN <<"json">>
    ELSE <<"json", "pickle">>

\* A raised ValueError is the message DeserializeError.
DeserializeError == [kind |-> "ValueError"]

deserialize(data) ==
    IF json_loads_ok(data) /\ data.type = SYSTEM_MESSAGE
    THEN IF HasKeys(data.obj, {"message_type", "payload"})
         THEN SystemMessage(data.obj.message_type, data.obj.payload)
         ELSE DeserializeError
    ELSE IF json_loads_ok(data) /\ data.type = PERFORMANCE_METRICS
    THEN IF HasKeys(data.obj, {"fps", "latency_ms", "memory_usage_mb",
                               "cpu_usage_percent", "queue_depth"})
         THEN PerformanceMetrics(data.obj.fps, data.obj.latency_ms,
                                 data.obj.memory_usage_mb, data.obj.cpu_usage_percent,
                                 data.obj.queue_depth)
         ELSE DeserializeError
    ELSE IF json_loads_ok(data) /\ data.type = LOG_MESSAGE
    THEN IF HasKeys(data.obj, {"level", "component", "message"})
         THEN LogMessage(data.obj.level, data.obj.component, data.obj.message,
                         IF "metadata" \in DOMAIN data.obj
                         THEN data.obj.metadata ELSE EmptyDict)
         ELSE DeserializeError
    ELSE IF ~pickle_loads_ok(data)
    THEN DeserializeError
    ELSE IF data.type = FRAME_DATA
    THEN IF HasKeys(data.obj, {"frame_id", "frame"})
         THEN FrameData_create(data.obj.frame_id, data.obj.frame)
         ELSE DeserializeError
    ELSE IF data.type = DETECTION_RESULT
    THEN IF HasKeys(data.obj, {"frame_id", "frame", "detections"})
         THEN [kind |-> "DetectionResult", frame_id |-> data.obj.frame_id,
               frame |-> data.obj.frame,
               detections |->
                   [i \in 1..Len(data.obj.detections) |->
                       Detection(data.obj.detections[i].bbox,
                                 data.obj.detections[i].confidence,
                                 data.obj.detections[i].detection_type,
                                 data.obj.detections[i].area)]]
         ELSE DeserializeError
    ELSE DeserializeError

\* Data that deserialize cannot turn into a message: an unrecognized type
\* tag in either format, a recognized tag with a key of its kind missing,
\* and bytes that are neither JSON text nor a pickle.
Undecodable ==
    { [fmt |-> "json", type |-> "heartbeat", obj |-> [seq |-> 1]],
      [fmt |-> "pickle", type |-> "heartbeat", obj |-> [seq |-> 1]],
      [fmt |-> "json", type |-> SYSTEM_MESSAGE, obj |-> [message_type |-> "end_of_stream"]],
      [fmt |-> "pickle", type |-> FRAME_DATA, obj |-> [frame_id |-> 0]],
      [fmt |-> "pickle", type |-> DETECTION_RESULT, obj |-> [frame_id |-> 0, frame |-> "bg"]],
      [fmt |-> "bytes", type |-> "", obj |-> EmptyDict] }

\* ---------------------------------------------------------------- channels
\* communication/protocol.py, class Endpoints.
STREAMER_TO_DETECTOR == "streamer_detector"
DETECTOR_TO_DISPLAY == "detector_display"
DISPLAY_TO_WEB == "display_web"
LOGGING_CHANNEL == "pipeline_logging"

Endpoints == {STREAMER_TO_DETECTOR, DETECTOR_TO_DISPLAY, DISPLAY_TO_WEB, LOGGING_CHANNEL}

(***************************************************************************)
(* ZMQManager.  A component's field holding a manager is "None" (no        *)
(* object), "unconnected" (constructed, or start() failed, or stopped) or  *)
(* "connected".  A queued element is <<n, data>>: data is the serialized   *)
(* message and n numbers the successful sends on the endpoint.             *)
(***************************************************************************)
\* Mutation: the socket accepts one message more than its high-water mark.
WouldBlock_one_late(q) == Len(q) >= HWM + 1

\* socket.send(data, zmq.NOBLOCK) succeeds unless HWM messages are queued.
WouldBlock(q) == Len(q) >= HWM

\* Mutation: send_*() without the is_connected test.
send_ok_unconnected(manager, q) == ~WouldBlock(q)

\* send_frame_data / send_detection_result / send_system_message /
\* send_log_message: the value returned.
send_ok(manager, q) == manager = "connected" /\ ~WouldBlock(q)

\* Mutation: a successful send enqueues the message twice.
send_twice(manager, q, n, data) ==
    IF send_ok(manager, q) THEN Append(Append(q, <<n + 1, data>>), <<n + 1, data>>) ELSE q

\* ... and the endpoint's queue after the call.
send(manager, q, n, data) ==
    IF send_ok(manager, q) THEN Append(q, <<n + 1, data>>) ELSE q

\* ZMQManager.receive: poll, then socket.recv; the oldest queued message.
recv_ready(manager, q) == manager = "connected" /\ q # <<>>

\* Mutation: recv hands out the newest queued message.
recv_data_newest(q) == q[Len(q)]

recv_data(q) == Head(q)

recv_rest(q) == Tail(q)

\* ZMQManager.stop(): closes a connected socket.
ZMQManager_stop(manager) == IF manager = "connected" THEN "unconnected" ELSE manager

\* The _cleanup idiom: if self.x: self.x.stop(); self.x = None
cleanup_manager(manager) == None


\* The value receive() hands to the loop when it has no message.
NoMessage == [kind |-> "None"]

\* ZMQManager.receive: None when not connected, when nothing is queued
\* within the timeout, and when deserialize raises.
\* Mutation: data that fails to deserialize is taken for the end of the stream.
receive_error_ends(manager, q) ==
    IF ~recv_ready(manager, q) THEN NoMessage
    ELSE LET m == deserialize(recv_data(q)[2])
         IN  IF m.kind = "ValueError"
             THEN SystemMessage("end_of_stream", [total_frames |-> 0])
             ELSE m

receive(manager, q) ==
    IF ~recv_ready(manager, q) THEN NoMessage
    ELSE LET m == deserialize(recv_data(q)[2])
         IN  IF m.kind = "ValueError" THEN NoMessage ELSE m

\* Mutation: every control message ends the loop.
is_end_of_stream_any_control(message) == message.kind = "SystemMessage"

\* The test the loops make on a received message before they break:
\* isinstance(message, SystemMessage) and message_type == "end_of_stream".
is_end_of_stream(message) ==
    message.kind = "SystemMessage" /\ message.message_type = "end_of_stream"

\* An endpoint as seen by one call: its queue q, the number n of successful
\* sends so far, and the number d of sends that returned False.
Push(ep, manager, data) ==
    [q |-> send(manager, ep.q, ep.n, data),
     n |-> IF send_ok(manager, ep.q) THEN ep.n + 1 ELSE ep.n,
     d |-> IF send_ok(manager, ep.q) THEN ep.d ELSE ep.d + 1]

\* Mutation: _send_log without its "if self.log_sender" guard.
PipelineLogger_send_log_unguarded(ep, log_sender, level, component, message) ==
    Push(ep, log_sender, serialize_log_message(LogMessage_create(level, component, message)))

\* utils/centralized_logger.py, PipelineLogger._send_log: a record is pushed
\* when a log sender exists; without one, or when the push fails, the record
\* goes to the local logger only.
PipelineLogger_send_log(ep, log_sender, level, component, message) ==
    IF log_sender = None THEN ep
    ELSE Push(ep, log_sender, serialize_log_message(LogMessage_create(level, component, message)))

\* Several _send_log calls in a row; records is a sequence of <<level, message>>.
RECURSIVE PipelineLogger_log_all(_, _, _, _)
PipelineLogger_log_all(ep, log_sender, component, records) ==
    IF records = <<>> THEN ep
    ELSE PipelineLogger_log_all(
             PipelineLogger_send_log(ep, log_sender, Head(records)[1], component, Head(records)[2]),
             log_sender, component, Tail(records))

\* ------------------------------------------------------------------- state
Stages == {"Streamer", "Detector", "Display", "Web"}

VARIABLES
    video,          \* the frames of the video file, a sequence of scenes
    operated,       \* the stage the operator stops and starts again, or None
    chan,           \* endpoint -> queue of undelivered <<n, data>>
    nsent,          \* endpoint -> number of successful sends
    dropped,        \* endpoint -> number of sends that returned False
    lastRecv,       \* endpoint -> n of the message received last
    mgr,            \* the ZMQManager fields of the components
    running,        \* is_streaming / is_processing / is_displaying
    stop_event,     \* stage -> stop_event.is_set()
    pc,             \* stage -> position of the loop thread
    caller,         \* stage -> position of the thread calling start/stop
    starts,         \* stage -> number of start_*() calls made
    src,            \* VideoStreamer: cap, current_frame_id
    det,            \* MotionDetector: prev_frame, frame_counter, total_detections
    disp,           \* VideoDisplay: current_frame_id, total_frames_displayed, total_detections_drawn
    web,            \* WebStreamer: current_frame_data, frames_received
    eosSeen,        \* stage -> payloads of the end_of_stream messages its loop received, this run
    eosFwd,         \* stage -> the end_of_stream send calls of its loop, this run
    detSum,         \* detections in the results the detector produced, this run
    nstops,         \* number of stop_*() calls made
    nfails,         \* number of faults so far: failed socket starts, processing exceptions
    applied,        \* the call of a function of the protocol or the detector under examination;
                    \* in the pipeline, the control message a loop ignored last
    frame_lock,     \* WebStreamer.frame_lock: "free" or the thread that holds it
    http,           \* client -> the generator thread of its /video_feed request
    webloop,        \* the receive loop's local buffer, and the values its updates stored
    logsvc,         \* CentralizedLogger: its fields, its logging thread, the caller of start/stop
    log_file,       \* the lines of the centralized log file
    producer,       \* component -> number of records its PipelineLogger was asked to send
    handles         \* ZMQManager objects used on their own: is_connected, socket, context

vars == <<video, operated, applied, frame_lock, http, webloop, logsvc, log_file, producer, handles, chan, nsent, dropped, lastRecv, mgr, running, stop_event, pc, caller,
          starts, src, det, disp, web, eosSeen, eosFwd, detSum, nstops, nfails>>

\* The variables of the web streamer's HTTP side.
webvars == <<frame_lock, http, webloop>>

\* The variables of the logging service and of the loggers that feed it.
logvars == <<logsvc, log_file, producer>>

\* What no step of the pipeline's components changes.
apart == <<applied, webvars, logvars, handles>>

Managers == {"Streamer.sender", "Detector.frame_receiver", "Detector.result_sender",
             "Display.result_receiver", "Display.web_sender", "Display.logger.log_sender",
             "Web.frame_receiver", "Web.pipeline_logger.log_sender"}

\* ----------------------------------------------------------------- videos
LongPattern == <<"bg", "two", "two", "small", "one">>

LongVideo == [i \in 1..LongVideoLen |-> LongPattern[((i - 1) % Len(LongPattern)) + 1]]

\* The short videos are the beginnings of the long one, the empty video included.
ShortVideos == {SubSeq(LongVideo, 1, n) : n \in 0..ShortVideoLen}

\* Backpressure is explored on the long video, with every component started
\* once and left to run.  On the short videos one component, the operated
\* one, is also stopped, started again and started with sockets that fail,
\* within the budgets MaxStarts, MaxStops and MaxFails.
StartLimit(s) == IF s = operated THEN MaxStarts ELSE 1
StopLimit(s) == IF s = operated THEN MaxStops ELSE 0
FailLimit(s) == IF s = operated THEN MaxFails ELSE 0

\* Control messages other than end_of_stream, as they are on the wire.
ControlMessages ==
    {serialize_system_message(SystemMessage(t, EmptyDict)) : t \in {"shutdown", "status_request"}}

\* The queues of messages a foreign producer can have left on an endpoint,
\* undecodable ones and control messages, numbered like every message sent
\* on it.
ForeignQueues ==
    UNION {{[i \in 1..n |-> <<i, g[i]>>] : g \in [1..n -> Undecodable \cup ControlMessages]}
           : n \in 1..MaxForeign}

\* No ZMQManager is examined on its own while the components run.
NoHandles == <<>>

\* The components whose PipelineLogger feeds the logging service.
LogProducers == {"Display", "WebStreamer"}

LogLevels == {"DEBUG", "INFO", "WARNING", "ERROR", "CRITICAL"}

\* CentralizedLogger.__init__ with no log file yet, and no record logged.
LoggerConstructed ==
    /\ logsvc = [is_running |-> FALSE, stop_event |-> FALSE, log_receiver |-> None,
                 pc |-> "none", message |-> <<>>, caller |-> "idle",
                 messages_logged |-> 0,
                 messages_by_level |-> [l \in LogLevels |-> 0],
                 messages_by_component |-> <<>>,
                 starts |-> 0, stops |-> 0]
    /\ log_file = <<>>
    /\ producer = [c \in LogProducers |-> 0]

\* The browsers that have requested /video_feed.
Clients == {"client1", "client2"}

\* The third kind of run: a short video, every component started once, and
\* the messages of a foreign producer queued on the input of one consumer.
Constructed ==
    /\ \/ /\ video = LongVideo /\ operated = None
          /\ chan = [e \in Endpoints |-> <<>>]
       \/ /\ video \in ShortVideos /\ operated \in Stages
          /\ chan = [e \in Endpoints |-> <<>>]
       \/ /\ video \in ShortVideos /\ operated = None
          /\ \E e \in {STREAMER_TO_DETECTOR, DETECTOR_TO_DISPLAY, DISPLAY_TO_WEB} :
                 \E q \in ForeignQueues :
                     chan = [f \in Endpoints |-> IF f = e THEN q ELSE <<>>]
    /\ nsent = [e \in Endpoints |-> Len(chan[e])]
    /\ dropped = [e \in Endpoints |-> 0]
    /\ lastRecv = [e \in Endpoints |-> 0]
    /\ mgr = [m \in Managers |-> None]
    /\ running = [s \in Stages |-> FALSE]
    /\ stop_event = [s \in Stages |-> FALSE]
    /\ pc = [s \in Stages |-> "none"]
    /\ caller = [s \in Stages |-> "idle"]
    /\ starts = [s \in Stages |-> 0]
    /\ src = [cap |-> None, pos |-> 0, current_frame_id |-> 0]
    /\ det = [prev_frame |-> None, frame_counter |-> 0, total_detections |-> 0]
    /\ disp = [current_frame_id |-> 0, total_frames_displayed |-> 0, total_detections_drawn |-> 0]
    /\ web = [current_frame_data |-> <<>>, frames_received |-> 0, frames_streamed |-> 0]
    /\ frame_lock = "free"
    /\ http = [r \in Clients |-> [pc |-> "top", frame_data |-> <<>>, reads |-> 0]]
    /\ webloop = [buffer |-> <<>>, updates |-> <<>>]
    /\ LoggerConstructed
    /\ handles = NoHandles
    /\ eosSeen = [s \in Stages |-> <<>>]
    /\ eosFwd = [s \in Stages |-> <<>>]
    /\ detSum = 0
    /\ nstops = 0
    /\ nfails = 0

\* No function is under examination while the pipeline runs.
NoCall == [op |-> "none"]

Init == Constructed /\ applied = NoCall

\* The endpoint e as one record, and the state after a call left it as ep.
EP(e) == [q |-> chan[e], n |-> nsent[e], d |-> dropped[e]]

SetEP(e, ep) ==
    /\ chan' = [chan EXCEPT ![e] = ep.q]
    /\ nsent' = [nsent EXCEPT ![e] = ep.n]
    /\ dropped' = [dropped EXCEPT ![e] = ep.d]

\* Where a loop thread goes when its loop ends: to its finally clause, which
\* the web streamer's loop does not have.
LoopEnd(s) == IF s = "Web" THEN "dead" ELSE "finally"

\* Mutation: the loop condition does not look at the flag.
AfterIteration_continuing(s) == "run"

\* The while-condition read after an iteration that did not break.
AfterIteration(s) == IF stop_event[s] THEN LoopEnd(s) ELSE "run"

\* Mutation: start_*() without stop_event.clear().
stop_event_keep(s) == stop_event

\* self.stop_event.clear() in start_*(): the flag a stop_*() left set is
\* cleared before the new loop thread is launched.
stop_event_clear(s) == [stop_event EXCEPT ![s] = FALSE]

\* A start_*() call is explored when the caller is not inside stop_*(), no
\* loop thread of an earlier run is still alive, and the budgets allow it;
\* ok says whether every socket of the component starts.
Start(s, ok) ==
    /\ caller[s] = "idle"
    /\ pc[s] \in {"none", "dead"}
    /\ ~running[s]
    /\ starts[s] < StartLimit(s)
    /\ ok \/ nfails < FailLimit(s)
    /\ starts' = [starts EXCEPT ![s] = @ + 1]
    /\ nfails' = IF ok THEN nfails ELSE nfails + 1
    /\ UNCHANGED <<nstops, caller>>

\* stop_*() up to the join: the early return when not running, then the flag.
StopBegin(s) ==
    /\ caller[s] = "idle"
    /\ running[s]
    /\ nstops < StopLimit(s)
    /\ nstops' = nstops + 1
    /\ stop_event' = [stop_event EXCEPT ![s] = TRUE]
    /\ caller' = [caller EXCEPT ![s] = "joining"]
    /\ UNCHANGED <<running, pc, starts, nfails>>

\* stop_*() called while the running flag is False: the early return, with
\* nothing closed and nothing cleared.
StopNotRunning(s) ==
    /\ caller[s] = "idle"
    /\ ~running[s]
    /\ nstops < StopLimit(s)
    /\ nstops' = nstops + 1
    /\ UNCHANGED <<video, operated, apart, chan, nsent, dropped, lastRecv, mgr, running,
                   stop_event, pc, caller, starts, src, det, disp, web, eosSeen, eosFwd,
                   detSum, nfails>>

\* stop_*() after the join returned (the thread ended, or the 2 s passed).
StopEnd(s) ==
    /\ caller[s] = "joining"
    /\ running' = [running EXCEPT ![s] = FALSE]
    /\ caller' = [caller EXCEPT ![s] = "idle"]
    /\ UNCHANGED <<stop_event, pc, starts, nstops, nfails>>

\* What a step of a loop thread never changes.
LoopFrame0 == UNCHANGED <<video, operated, apart, caller, starts, nstops, stop_event>>

\* ... when no exception is raised in it.
LoopFrame == LoopFrame0 /\ UNCHANGED nfails

\* What an iteration of the loop of stage s that received message leaves
\* alone; a control message that is not end_of_stream is noted as ignored.
ReceiveFrame(s, message) ==
    /\ UNCHANGED <<video, operated, webvars, logvars, handles, caller, starts, nstops,
                   stop_event>>
    /\ applied' = IF message.kind = "SystemMessage" /\ message.message_type # "end_of_stream"
                  THEN [op |-> "ignored", stage |-> s, message_type |-> message.message_type]
                  ELSE applied

\* Whether an exception is raised while stage s processes the message its
\* loop has received (raises), within the fault budget.
Raise(s, raises) ==
    /\ raises => nfails < FailLimit(s)
    /\ nfails' = IF raises THEN nfails + 1 ELSE nfails

\* What a step of a caller thread never changes.
CallerFrame == UNCHANGED <<video, operated, apart, chan, nsent, dropped, lastRecv, detSum>>


\* ----------------------------------------------------------- VideoStreamer
\* start_streaming, with open_video and setup_communication.  ok says
\* whether the sender socket could be bound; when it could not, the video is
\* closed again and nothing else is touched.
VideoStreamer_start_streaming(ok) ==
    /\ Start("Streamer", ok)
    /\ mgr' = [mgr EXCEPT !["Streamer.sender"] = IF ok THEN "connected" ELSE "unconnected"]
    /\ IF ok
       THEN /\ src' = [cap |-> "open", pos |-> 0, current_frame_id |-> 0]
            /\ stop_event' = stop_event_clear("Streamer")
            /\ pc' = [pc EXCEPT !["Streamer"] = "run"]
            /\ running' = [running EXCEPT !["Streamer"] = TRUE]
            /\ eosSeen' = [eosSeen EXCEPT !["Streamer"] = <<>>]
            /\ eosFwd' = [eosFwd EXCEPT !["Streamer"] = <<>>]
       ELSE /\ src' = [src EXCEPT !.cap = None]
            /\ UNCHANGED <<stop_event, pc, running, eosSeen, eosFwd>>
    /\ CallerFrame
    /\ UNCHANGED <<det, disp, web>>

VideoStreamer_stop_streaming_begin ==
    /\ StopBegin("Streamer")
    /\ CallerFrame
    /\ UNCHANGED <<mgr, src, det, disp, web, eosSeen, eosFwd>>

\* is_streaming = False and _cleanup: close_video, then the sender.
VideoStreamer_stop_streaming_end ==
    /\ StopEnd("Streamer")
    /\ src' = [src EXCEPT !.cap = None]
    /\ mgr' = [mgr EXCEPT !["Streamer.sender"] = cleanup_manager(@)]
    /\ CallerFrame
    /\ UNCHANGED <<det, disp, web, eosSeen, eosFwd>>

\* One iteration of _stream_loop that reads a frame and sends it.
VideoStreamer_stream_frame ==
    /\ pc["Streamer"] = "run"
    /\ src.cap # None
    /\ mgr["Streamer.sender"] # None
    /\ src.pos < Len(video)
    /\ LET frame_data == FrameData_create(src.current_frame_id, video[src.pos + 1])
       IN  SetEP(STREAMER_TO_DETECTOR,
                 Push(EP(STREAMER_TO_DETECTOR), mgr["Streamer.sender"],
                      serialize_frame_data(frame_data)))
    /\ src' = [src EXCEPT !.pos = @ + 1, !.current_frame_id = @ + 1]
    /\ pc' = [pc EXCEPT !["Streamer"] = AfterIteration("Streamer")]
    /\ LoopFrame
    /\ UNCHANGED <<lastRecv, mgr, running, det, disp, web, eosSeen, eosFwd, detSum>>

\* The iteration in which cap.read() finds the video exhausted.
VideoStreamer_end_of_video ==
    /\ pc["Streamer"] = "run"
    /\ src.cap # None
    /\ src.pos = Len(video)
    /\ running' = [running EXCEPT !["Streamer"] = FALSE]
    /\ pc' = [pc EXCEPT !["Streamer"] = "finally"]
    /\ LoopFrame
    /\ UNCHANGED <<chan, nsent, dropped, lastRecv, mgr, src, det, disp, web,
                   eosSeen, eosFwd, detSum>>

\* The loop ends without reading: the flag is found set, or _cleanup has
\* cleared cap under the running thread (AttributeError, caught by the
\* loop's except clause).
VideoStreamer_loop_exit ==
    /\ pc["Streamer"] = "run"
    /\ stop_event["Streamer"] \/ src.cap = None
    /\ pc' = [pc EXCEPT !["Streamer"] = "finally"]
    /\ LoopFrame
    /\ UNCHANGED <<chan, nsent, dropped, lastRecv, mgr, running, src, det, disp, web,
                   eosSeen, eosFwd, detSum>>

\* Mutation: total_frames is the id of the last frame, not the frame count.
VideoStreamer_end_message_last_id ==
    SystemMessage("end_of_stream", [total_frames |-> src.current_frame_id - 1])

\* The end_of_stream message the streamer creates.
VideoStreamer_end_message ==
    SystemMessage("end_of_stream", [total_frames |-> src.current_frame_id])

\* A loop's send of an end_of_stream message through the manager field:
\* with the field cleared the call raises and the enclosing try catches it.
SendEndOfStream(s, e, sender, message) ==
    /\ IF sender = None
       THEN UNCHANGED <<chan, nsent, dropped>>
       ELSE SetEP(e, Push(EP(e), sender, serialize_system_message(message)))
    /\ eosFwd' = [eosFwd EXCEPT ![s] =
                     Append(@, [payload |-> message.payload, ok |-> send_ok(sender, chan[e])])]

\* Mutation: after its end_of_stream the stream loop is entered again.
VideoStreamer_finally_resume ==
    /\ pc["Streamer"] = "finally"
    /\ SendEndOfStream("Streamer", STREAMER_TO_DETECTOR, mgr["Streamer.sender"],
                       VideoStreamer_end_message)
    /\ pc' = [pc EXCEPT !["Streamer"] = "run"]
    /\ LoopFrame
    /\ UNCHANGED <<lastRecv, mgr, running, src, det, disp, web, eosSeen, detSum>>

\* The finally clause of _stream_loop.
VideoStreamer_finally ==
    /\ pc["Streamer"] = "finally"
    /\ SendEndOfStream("Streamer", STREAMER_TO_DETECTOR, mgr["Streamer.sender"],
                       VideoStreamer_end_message)
    /\ pc' = [pc EXCEPT !["Streamer"] = "dead"]
    /\ LoopFrame
    /\ UNCHANGED <<lastRecv, mgr, running, src, det, disp, web, eosSeen, detSum>>

VideoStreamer ==
    \/ \E ok \in BOOLEAN : VideoStreamer_start_streaming(ok)
    \/ VideoStreamer_stop_streaming_begin
    \/ VideoStreamer_stop_streaming_end
    \/ VideoStreamer_stream_frame
    \/ VideoStreamer_end_of_video
    \/ VideoStreamer_loop_exit
    \/ VideoStreamer_finally

\* ---------------------------------------------------------- MotionDetector
\* start_detection with setup_communication.  okR / okS say whether the
\* frame receiver / the result sender could be started; setup stops at the
\* first failure.
MotionDetector_start_detection(okR, okS) ==
    /\ Start("Detector", okR /\ okS)
    /\ mgr' = [mgr EXCEPT !["Detector.frame_receiver"] = IF okR THEN "connected" ELSE "unconnected",
                          !["Detector.result_sender"] =
                              IF ~okR THEN @ ELSE IF okS THEN "connected" ELSE "unconnected"]
    /\ IF okR /\ okS
       THEN /\ stop_event' = stop_event_clear("Detector")
            /\ det' = [prev_frame |-> None, frame_counter |-> 0, total_detections |-> 0]
            /\ pc' = [pc EXCEPT !["Detector"] = "run"]
            /\ running' = [running EXCEPT !["Detector"] = TRUE]
            /\ eosSeen' = [eosSeen EXCEPT !["Detector"] = <<>>]
            /\ eosFwd' = [eosFwd EXCEPT !["Detector"] = <<>>]
            /\ detSum' = 0
       ELSE UNCHANGED <<stop_event, det, pc, running, eosSeen, eosFwd, detSum>>
    /\ UNCHANGED <<video, operated, apart, chan, nsent, dropped, lastRecv, src, disp, web>>

MotionDetector_stop_detection_begin ==
    /\ StopBegin("Detector")
    /\ CallerFrame
    /\ UNCHANGED <<mgr, src, det, disp, web, eosSeen, eosFwd>>

\* is_processing = False and _cleanup.
MotionDetector_stop_detection_end ==
    /\ StopEnd("Detector")
    /\ mgr' = [mgr EXCEPT !["Detector.frame_receiver"] = cleanup_manager(@),
                          !["Detector.result_sender"] = cleanup_manager(@)]
    /\ CallerFrame
    /\ UNCHANGED <<src, det, disp, web, eosSeen, eosFwd>>

\* Mutation: without a previous frame the frame is compared with a black one.
MotionDetector_detections_against_black(d, frame_data) ==
    MotionBetween[IF d.prev_frame = None THEN "bg" ELSE d.prev_frame, frame_data.frame]

\* _process_frame: the detections of the frame ...
\* (prev_frame holds the gray image of the named scene)
MotionDetector_detections(d, frame_data) ==
    IF d.prev_frame = None THEN <<>> ELSE MotionBetween[d.prev_frame, frame_data.frame]

\* Mutation: the first frame stays the reference frame.
MotionDetector_process_frame_first_reference(d, frame_data) ==
    [d EXCEPT !.frame_counter = @ + 1,
              !.prev_frame = IF @ = None THEN frame_data.frame ELSE @]

\* ... and the detector's fields after it.
MotionDetector_process_frame(d, frame_data) ==
    [d EXCEPT !.frame_counter = @ + 1, !.prev_frame = frame_data.frame]

\* Mutation: the statistics count the frames with motion, not the detections.
MotionDetector_count_motion_frames(total, detections) ==
    IF Len(detections) > 0 THEN total + 1 ELSE total

\* The statistics update of the loop after a result was produced.
MotionDetector_count_detections(total, detections) ==
    IF Len(detections) > 0 THEN total + Len(detections) ELSE total

\* _process_frame when an exception is raised in it, after the frame counter
\* was incremented: the except clause logs it and None is returned.
MotionDetector_process_frame_raises(d, frame_data) ==
    [d EXCEPT !.frame_counter = @ + 1]

\* One iteration of _detection_loop that receives a message; raises says
\* whether _process_frame raises on it.
MotionDetector_receive(raises) ==
    /\ pc["Detector"] = "run"
    /\ recv_ready(mgr["Detector.frame_receiver"], chan[STREAMER_TO_DETECTOR])
    /\ Raise("Detector", raises)
    /\ raises => receive(mgr["Detector.frame_receiver"], chan[STREAMER_TO_DETECTOR]).kind = "FrameData"
    /\ LET q == chan[STREAMER_TO_DETECTOR]
           message == receive(mgr["Detector.frame_receiver"], q)
       IN
       /\ lastRecv' = [lastRecv EXCEPT ![STREAMER_TO_DETECTOR] = recv_data(q)[1]]
       /\ IF is_end_of_stream(message)
          THEN /\ chan' = [chan EXCEPT ![STREAMER_TO_DETECTOR] = recv_rest(q)]
               /\ eosSeen' = [eosSeen EXCEPT !["Detector"] = Append(@, message.payload)]
               /\ pc' = [pc EXCEPT !["Detector"] = "finally"]
               /\ UNCHANGED <<nsent, dropped, det, detSum>>
          ELSE IF message.kind = "FrameData" /\ raises
          THEN \* no result: nothing is sent or counted, the loop goes on
               /\ chan' = [chan EXCEPT ![STREAMER_TO_DETECTOR] = recv_rest(q)]
               /\ det' = MotionDetector_process_frame_raises(det, message)
               /\ pc' = [pc EXCEPT !["Detector"] = AfterIteration("Detector")]
               /\ UNCHANGED <<nsent, dropped, detSum, eosSeen>>
          ELSE IF message.kind = "FrameData"
          THEN LET detections == MotionDetector_detections(det, message)
                   after == MotionDetector_process_frame(det, message)
                   result == DetectionResult_create(message, detections)
                   sender == mgr["Detector.result_sender"]
               IN  IF sender = None
                   THEN \* AttributeError, caught by the loop's except clause
                        /\ chan' = [chan EXCEPT ![STREAMER_TO_DETECTOR] = recv_rest(q)]
                        /\ det' = after
                        /\ detSum' = detSum + Len(detections)
                        /\ pc' = [pc EXCEPT !["Detector"] = "finally"]
                        /\ UNCHANGED <<nsent, dropped, eosSeen>>
                   ELSE LET ep == Push(EP(DETECTOR_TO_DISPLAY), sender,
                                       serialize_detection_result(result))
                        IN  /\ chan' = [chan EXCEPT ![STREAMER_TO_DETECTOR] = recv_rest(q),
                                                    ![DETECTOR_TO_DISPLAY] = ep.q]
                            /\ nsent' = [nsent EXCEPT ![DETECTOR_TO_DISPLAY] = ep.n]
                            /\ dropped' = [dropped EXCEPT ![DETECTOR_TO_DISPLAY] = ep.d]
                            /\ det' = [after EXCEPT !.total_detections =
                                          MotionDetector_count_detections(@, detections)]
                            /\ detSum' = detSum + Len(detections)
                            /\ pc' = [pc EXCEPT !["Detector"] = AfterIteration("Detector")]
                            /\ UNCHANGED eosSeen
          ELSE \* another SystemMessage, an undecodable message, another kind
               /\ chan' = [chan EXCEPT ![STREAMER_TO_DETECTOR] = recv_rest(q)]
               /\ pc' = [pc EXCEPT !["Detector"] = AfterIteration("Detector")]
               /\ UNCHANGED <<nsent, dropped, det, detSum, eosSeen>>
    /\ ReceiveFrame("Detector", receive(mgr["Detector.frame_receiver"], chan[STREAMER_TO_DETECTOR]))
    /\ UNCHANGED <<mgr, running, src, disp, web, eosFwd>>

\* The loop ends without a message: the flag is found set, or _cleanup has
\* cleared frame_receiver under the running thread (AttributeError).
MotionDetector_loop_exit ==
    /\ pc["Detector"] = "run"
    /\ stop_event["Detector"] \/ mgr["Detector.frame_receiver"] = None
    /\ pc' = [pc EXCEPT !["Detector"] = "finally"]
    /\ LoopFrame
    /\ UNCHANGED <<chan, nsent, dropped, lastRecv, mgr, running, src, det, disp, web,
                   eosSeen, eosFwd, detSum>>

\* Mutation: the detector's end_of_stream carries the frame counter only.
MotionDetector_end_message_frames_only ==
    SystemMessage("end_of_stream", [total_frames_processed |-> det.frame_counter])

\* The end_of_stream message the detector creates in its finally clause.
MotionDetector_end_message ==
    SystemMessage("end_of_stream",
                  [total_frames_processed |-> det.frame_counter,
                   total_detections |-> det.total_detections])

\* The finally clause of _detection_loop.
MotionDetector_finally ==
    /\ pc["Detector"] = "finally"
    /\ SendEndOfStream("Detector", DETECTOR_TO_DISPLAY, mgr["Detector.result_sender"],
                       MotionDetector_end_message)
    /\ pc' = [pc EXCEPT !["Detector"] = "dead"]
    /\ LoopFrame
    /\ UNCHANGED <<lastRecv, mgr, running, src, det, disp, web, eosSeen, detSum>>

MotionDetector ==
    \/ \E okR, okS \in BOOLEAN : MotionDetector_start_detection(okR, okS)
    \/ MotionDetector_stop_detection_begin
    \/ MotionDetector_stop_detection_end
    \/ \E raises \in BOOLEAN : MotionDetector_receive(raises)
    \/ MotionDetector_loop_exit
    \/ MotionDetector_finally

\* ------------------------------------------------------------ VideoDisplay
\* The display runs in forwarding mode (show_window = False, as launched by
\* the pipeline runner) with blur_detections = False.  Its logger is a
\* PipelineLogger; every logger call is a push on the logging endpoint.
Display_log(ep, log_sender, records) ==
    PipelineLogger_log_all(ep, log_sender, "Display", records)

\* start_display: logger.setup(), setup_communication, reset, thread.
\* okL / okR / okS say whether the log sender / result receiver / web sender
\* could be started.  A failed logger setup only prints a warning.
VideoDisplay_start_display(okL, okR, okS) ==
    /\ Start("Display", okL /\ okR /\ okS)
    /\ LET log_sender == IF okL THEN "connected" ELSE "unconnected"
       IN  /\ mgr' = [mgr EXCEPT !["Display.logger.log_sender"] = log_sender,
                                 !["Display.result_receiver"] =
                                     IF okR THEN "connected" ELSE "unconnected",
                                 !["Display.web_sender"] =
                                     IF ~okR THEN @ ELSE IF okS THEN "connected" ELSE "unconnected"]
           /\ SetEP(LOGGING_CHANNEL,
                    Display_log(EP(LOGGING_CHANNEL), log_sender,
                                IF ~okR THEN <<<<"ERROR", "Failed to start result receiver">>>>
                                ELSE IF ~okS THEN <<<<"ERROR", "Failed to start web sender">>>>
                                ELSE <<<<"INFO", "Communication setup complete">>,
                                       <<"INFO", "Started video display">>>>))
    /\ IF okR /\ okS
       THEN /\ stop_event' = stop_event_clear("Display")
            /\ disp' = [current_frame_id |-> 0, total_frames_displayed |-> 0,
                        total_detections_drawn |-> 0]
            /\ pc' = [pc EXCEPT !["Display"] = "run"]
            /\ running' = [running EXCEPT !["Display"] = TRUE]
            /\ eosSeen' = [eosSeen EXCEPT !["Display"] = <<>>]
            /\ eosFwd' = [eosFwd EXCEPT !["Display"] = <<>>]
       ELSE UNCHANGED <<stop_event, disp, pc, running, eosSeen, eosFwd>>
    /\ UNCHANGED <<video, operated, apart, lastRecv, detSum, src, det, web>>

\* stop_display up to the join: a log record, then the flag.
VideoDisplay_stop_display_begin ==
    /\ StopBegin("Display")
    /\ SetEP(LOGGING_CHANNEL,
             Display_log(EP(LOGGING_CHANNEL), mgr["Display.logger.log_sender"],
                         <<<<"INFO", "Stopping video display">>>>))
    /\ UNCHANGED <<video, operated, apart, lastRecv, detSum, mgr, src, det, disp, web, eosSeen, eosFwd>>

\* is_displaying = False and _cleanup, which also cleans the logger up; the
\* last logger call then reaches the local logger only.
VideoDisplay_stop_display_end ==
    /\ StopEnd("Display")
    /\ mgr' = [mgr EXCEPT !["Display.result_receiver"] = cleanup_manager(@),
                          !["Display.web_sender"] = cleanup_manager(@),
                          !["Display.logger.log_sender"] = cleanup_manager(@)]
    /\ CallerFrame
    /\ UNCHANGED <<src, det, disp, web, eosSeen, eosFwd>>

\* _process_frame: the display's counters after drawing one result.  The
\* overlay rendering itself is not modelled: the frame is passed on as it
\* came.
VideoDisplay_process_frame(d, result) ==
    [d EXCEPT !.current_frame_id = result.frame_id,
              !.total_detections_drawn = @ + Len(result.detections),
              !.total_frames_displayed = @ + 1]

\* The message the display sends on when it receives end_of_stream.
VideoDisplay_end_message(message) == message

\* _process_frame when an exception is raised in it, after the frame id was
\* noted: the except clause logs it and None is returned, so the result is
\* forwarded with the frame as it came.
VideoDisplay_process_frame_raises(d, result) ==
    [d EXCEPT !.current_frame_id = result.frame_id]

\* One iteration of _display_loop that receives a message; raises says
\* whether _process_frame raises on it.
VideoDisplay_receive(raises) ==
    /\ pc["Display"] = "run"
    /\ recv_ready(mgr["Display.result_receiver"], chan[DETECTOR_TO_DISPLAY])
    /\ Raise("Display", raises)
    /\ raises => receive(mgr["Display.result_receiver"], chan[DETECTOR_TO_DISPLAY]).kind = "DetectionResult"
    /\ LET q == chan[DETECTOR_TO_DISPLAY]
           message == receive(mgr["Display.result_receiver"], q)
           sender == mgr["Display.web_sender"]
           log_sender == mgr["Display.logger.log_sender"]
           web0 == EP(DISPLAY_TO_WEB)
           log0 == EP(LOGGING_CHANNEL)
       IN
       /\ lastRecv' = [lastRecv EXCEPT ![DETECTOR_TO_DISPLAY] = recv_data(q)[1]]
       /\ IF is_end_of_stream(message)
          THEN LET fwd == VideoDisplay_end_message(message)
                   web1 == IF sender = None THEN web0
                           ELSE Push(web0, sender, serialize_system_message(fwd))
                   log1 == Display_log(log0, log_sender,
                               IF sender = None
                               THEN <<<<"INFO", "Received end-of-stream signal">>>>
                               ELSE <<<<"INFO", "Received end-of-stream signal">>,
                                      <<"INFO", "Forwarded end-of-stream">>>>)
               IN  /\ chan' = [chan EXCEPT ![DETECTOR_TO_DISPLAY] = recv_rest(q),
                                           ![DISPLAY_TO_WEB] = web1.q,
                                           ![LOGGING_CHANNEL] = log1.q]
                   /\ nsent' = [nsent EXCEPT ![DISPLAY_TO_WEB] = web1.n,
                                             ![LOGGING_CHANNEL] = log1.n]
                   /\ dropped' = [dropped EXCEPT ![DISPLAY_TO_WEB] = web1.d,
                                                 ![LOGGING_CHANNEL] = log1.d]
                   /\ eosSeen' = [eosSeen EXCEPT !["Display"] = Append(@, message.payload)]
                   /\ eosFwd' = [eosFwd EXCEPT !["Display"] =
                                    IF sender = None THEN @
                                    ELSE Append(@, [payload |-> fwd.payload,
                                                    ok |-> send_ok(sender, web0.q)])]
                   /\ pc' = [pc EXCEPT !["Display"] = "finally"]
                   /\ UNCHANGED disp
          ELSE IF message.kind = "DetectionResult"
          THEN LET web1 == IF sender = None THEN web0
                           ELSE Push(web0, sender, serialize_detection_result(message))
                   first == IF raises THEN <<"ERROR", "Frame processing failed">>
                            ELSE <<"DEBUG", "Blur not enabled">>
                   log1 == Display_log(log0, log_sender,
                               IF sender # None /\ ~send_ok(sender, web0.q)
                               THEN <<first, <<"DEBUG", "Web forward timeout">>>>
                               ELSE <<first>>)
               IN  /\ chan' = [chan EXCEPT ![DETECTOR_TO_DISPLAY] = recv_rest(q),
                                           ![DISPLAY_TO_WEB] = web1.q,
                                           ![LOGGING_CHANNEL] = log1.q]
                   /\ nsent' = [nsent EXCEPT ![DISPLAY_TO_WEB] = web1.n,
                                             ![LOGGING_CHANNEL] = log1.n]
                   /\ dropped' = [dropped EXCEPT ![DISPLAY_TO_WEB] = web1.d,
                                                 ![LOGGING_CHANNEL] = log1.d]
                   /\ disp' = IF raises THEN VideoDisplay_process_frame_raises(disp, message)
                              ELSE VideoDisplay_process_frame(disp, message)
                   /\ pc' = [pc EXCEPT !["Display"] = AfterIteration("Display")]
                   /\ UNCHANGED <<eosSeen, eosFwd>>
          ELSE \* another SystemMessage, an undecodable message, another kind
               /\ chan' = [chan EXCEPT ![DETECTOR_TO_DISPLAY] = recv_rest(q)]
               /\ pc' = [pc EXCEPT !["Display"] = AfterIteration("Display")]
               /\ UNCHANGED <<nsent, dropped, disp, eosSeen, eosFwd>>
    /\ ReceiveFrame("Display", receive(mgr["Display.result_receiver"], chan[DETECTOR_TO_DISPLAY]))
    /\ UNCHANGED <<mgr, running, src, det, web, detSum>>

\* The loop ends without a message: the flag is found set, or _cleanup has
\* cleared result_receiver under the running thread (AttributeError, logged
\* by the loop's except clause).
VideoDisplay_loop_exit ==
    /\ pc["Display"] = "run"
    /\ stop_event["Display"] \/ mgr["Display.result_receiver"] = None
    /\ IF stop_event["Display"] /\ mgr["Display.result_receiver"] # None
       THEN UNCHANGED <<chan, nsent, dropped>>
       ELSE SetEP(LOGGING_CHANNEL,
                  Display_log(EP(LOGGING_CHANNEL), mgr["Display.logger.log_sender"],
                              <<<<"ERROR", "Display loop error">>>>))
    /\ pc' = [pc EXCEPT !["Display"] = "finally"]
    /\ LoopFrame
    /\ UNCHANGED <<lastRecv, mgr, running, src, det, disp, web, eosSeen, eosFwd, detSum>>

\* The finally clause of _display_loop: _display_summary, five log records.
VideoDisplay_finally ==
    /\ pc["Display"] = "finally"
    /\ SetEP(LOGGING_CHANNEL,
             Display_log(EP(LOGGING_CHANNEL), mgr["Display.logger.log_sender"],
                         <<<<"INFO", "Display session summary">>,
                           <<"INFO", "Frames displayed">>,
                           <<"INFO", "Detections drawn">>,
                           <<"INFO", "Session duration">>,
                           <<"INFO", "Average FPS">>>>))
    /\ pc' = [pc EXCEPT !["Display"] = "dead"]
    /\ LoopFrame
    /\ UNCHANGED <<lastRecv, mgr, running, src, det, disp, web, eosSeen, eosFwd, detSum>>

VideoDisplay ==
    \/ \E okL, okR, okS \in BOOLEAN : VideoDisplay_start_display(okL, okR, okS)
    \/ VideoDisplay_stop_display_begin
    \/ VideoDisplay_stop_display_end
    \/ \E raises \in BOOLEAN : VideoDisplay_receive(raises)
    \/ VideoDisplay_loop_exit
    \/ VideoDisplay_finally

\* ------------------------------------------------------------- WebStreamer
\* The web streamer's pipeline_logger is constructed but its setup() is never
\* called, so its log sender stays as constructed.
WebStreamer_log(ep, records) ==
    PipelineLogger_log_all(ep, mgr["Web.pipeline_logger.log_sender"], "WebStreamer", records)

\* start_streaming with setup_communication, up to the blocking app.run.
WebStreamer_start_streaming(ok) ==
    /\ Start("Web", ok)
    /\ mgr' = [mgr EXCEPT !["Web.frame_receiver"] = IF ok THEN "connected" ELSE "unconnected"]
    /\ IF ok
       THEN /\ SetEP(LOGGING_CHANNEL,
                     WebStreamer_log(EP(LOGGING_CHANNEL),
                                     <<<<"INFO", "WebStreamer communication established">>,
                                       <<"INFO", "Web streaming started">>>>))
            /\ stop_event' = stop_event_clear("Web")
            /\ web' = [web EXCEPT !.frames_received = 0, !.frames_streamed = 0]
            /\ pc' = [pc EXCEPT !["Web"] = "run"]
            /\ running' = [running EXCEPT !["Web"] = TRUE]
            /\ eosSeen' = [eosSeen EXCEPT !["Web"] = <<>>]
            /\ eosFwd' = [eosFwd EXCEPT !["Web"] = <<>>]
       ELSE UNCHANGED <<chan, nsent, dropped, stop_event, web, pc, running, eosSeen, eosFwd>>
    /\ UNCHANGED <<video, operated, apart, lastRecv, detSum, src, det, disp>>

WebStreamer_stop_streaming_begin ==
    /\ StopBegin("Web")
    /\ SetEP(LOGGING_CHANNEL,
             WebStreamer_log(EP(LOGGING_CHANNEL), <<<<"INFO", "Web streaming stopped">>>>))
    /\ UNCHANGED <<video, operated, apart, lastRecv, detSum, mgr, src, det, disp, web, eosSeen, eosFwd>>

WebStreamer_stop_streaming_end ==
    /\ StopEnd("Web")
    /\ mgr' = [mgr EXCEPT !["Web.frame_receiver"] = cleanup_manager(@)]
    /\ CallerFrame
    /\ UNCHANGED <<src, det, disp, web, eosSeen, eosFwd>>

\* The JPEG bytes of the frame with its detections drawn, as the image it
\* encodes.
WebStreamer_encode(result) ==
    [frame_id |-> result.frame_id, frame |-> result.frame, detections |-> result.detections]

\* Where the receive loop is after a DetectionResult: _draw_detections and
\* cv2.imencode are called in the loop body itself, so an exception raised
\* in them reaches the except clause around the while loop.
WebStreamer_after_result(raises) ==
    IF raises THEN "dead" ELSE AfterIteration("Web")

\* One iteration of _receive_loop that receives a message; raises says
\* whether drawing or encoding raises on it.
WebStreamer_receive(raises) ==
    /\ pc["Web"] = "run"
    /\ recv_ready(mgr["Web.frame_receiver"], chan[DISPLAY_TO_WEB])
    /\ Raise("Web", raises)
    /\ raises => receive(mgr["Web.frame_receiver"], chan[DISPLAY_TO_WEB]).kind = "DetectionResult"
    /\ LET q == chan[DISPLAY_TO_WEB]
           message == receive(mgr["Web.frame_receiver"], q)
       IN
       /\ lastRecv' = [lastRecv EXCEPT ![DISPLAY_TO_WEB] = recv_data(q)[1]]
       /\ IF message.kind = "DetectionResult"
          THEN LET log1 == IF raises
                           THEN WebStreamer_log(EP(LOGGING_CHANNEL),
                                                <<<<"ERROR", "Frame receiving failed">>>>)
                           ELSE EP(LOGGING_CHANNEL)
               IN  /\ chan' = [chan EXCEPT ![DISPLAY_TO_WEB] = recv_rest(q),
                                           ![LOGGING_CHANNEL] = log1.q]
                   /\ nsent' = [nsent EXCEPT ![LOGGING_CHANNEL] = log1.n]
                   /\ dropped' = [dropped EXCEPT ![LOGGING_CHANNEL] = log1.d]
                   /\ web' = IF raises THEN web
                             ELSE [web EXCEPT !.current_frame_data = <<WebStreamer_encode(message)>>,
                                              !.frames_received = @ + 1]
                   /\ pc' = [pc EXCEPT !["Web"] = WebStreamer_after_result(raises)]
                   /\ UNCHANGED eosSeen
          ELSE IF is_end_of_stream(message)
          THEN LET log1 == WebStreamer_log(EP(LOGGING_CHANNEL), <<<<"INFO", "Video stream ended">>>>)
               IN  /\ chan' = [chan EXCEPT ![DISPLAY_TO_WEB] = recv_rest(q),
                                           ![LOGGING_CHANNEL] = log1.q]
                   /\ nsent' = [nsent EXCEPT ![LOGGING_CHANNEL] = log1.n]
                   /\ dropped' = [dropped EXCEPT ![LOGGING_CHANNEL] = log1.d]
                   /\ eosSeen' = [eosSeen EXCEPT !["Web"] = Append(@, message.payload)]
                   /\ pc' = [pc EXCEPT !["Web"] = "dead"]
                   /\ UNCHANGED web
          ELSE /\ chan' = [chan EXCEPT ![DISPLAY_TO_WEB] = recv_rest(q)]
               /\ pc' = [pc EXCEPT !["Web"] = AfterIteration("Web")]
               /\ UNCHANGED <<nsent, dropped, web, eosSeen>>
    /\ ReceiveFrame("Web", receive(mgr["Web.frame_receiver"], chan[DISPLAY_TO_WEB]))
    /\ UNCHANGED <<mgr, running, src, det, disp, eosFwd, detSum>>

\* The loop ends without a message: the flag is found set, or _cleanup has
\* cleared frame_receiver under the running thread (AttributeError, logged
\* by the loop's except clause).
WebStreamer_loop_exit ==
    /\ pc["Web"] = "run"
    /\ stop_event["Web"] \/ mgr["Web.frame_receiver"] = None
    /\ IF stop_event["Web"] /\ mgr["Web.frame_receiver"] # None
       THEN UNCHANGED <<chan, nsent, dropped>>
       ELSE SetEP(LOGGING_CHANNEL,
                  WebStreamer_log(EP(LOGGING_CHANNEL), <<<<"ERROR", "Frame receiving failed">>>>))
    /\ pc' = [pc EXCEPT !["Web"] = "dead"]
    /\ LoopFrame
    /\ UNCHANGED <<lastRecv, mgr, running, src, det, disp, web, eosSeen, eosFwd, detSum>>

WebStreamer ==
    \/ \E ok \in BOOLEAN : WebStreamer_start_streaming(ok)
    \/ WebStreamer_stop_streaming_begin
    \/ WebStreamer_stop_streaming_end
    \/ \E raises \in BOOLEAN : WebStreamer_receive(raises)
    \/ WebStreamer_loop_exit

Next ==
    \/ VideoStreamer
    \/ MotionDetector
    \/ VideoDisplay
    \/ WebStreamer
    \/ \E s \in Stages : StopNotRunning(s)

Spec == Init /\ [][Next]_vars


\* ------------------------------------------------------- the codec alone
\* The serialize_* method the send_* methods of ZMQManager apply to a message.
serialize(m) ==
    CASE m.kind = "FrameData" -> serialize_frame_data(m)
      [] m.kind = "DetectionResult" -> serialize_detection_result(m)
      [] m.kind = "SystemMessage" -> serialize_system_message(m)
      [] m.kind = "PerformanceMetrics" -> serialize_performance_metrics(m)
      [] m.kind = "LogMessage" -> serialize_log_message(m)

\* Messages of the five kinds.  Identifiers and counters range over
\* 0..ShortVideoLen; a metadata dictionary is empty or holds one region of
\* interest, as a list or as a tuple.
CodecIds == 0..ShortVideoLen

Metadatas ==
    {EmptyDict, [roi |-> PyList(<<10, 20>>)], [roi |-> PyTuple(<<10, 20>>)]}

CodecMessages ==
    {FrameData_create(i, f) : i \in CodecIds, f \in Scenes}
    \cup {DetectionResult_create(FrameData_create(i, c), MotionBetween[p, c]) :
              i \in CodecIds, p \in {"bg", "two"}, c \in Scenes}
    \cup {SystemMessage(t, [total_frames |-> n]) :
              t \in {"end_of_stream", "shutdown"}, n \in CodecIds}
    \cup {PerformanceMetrics(fps, 40, 512, cpu, n) :
              fps \in {0, 30}, cpu \in {0, 100}, n \in CodecIds}
    \cup {LogMessage(l, c, "Frame processing failed", md) :
              l \in {"INFO", "ERROR"}, c \in {"Detector", "Display"}, md \in Metadatas}

\* Before anything runs, a message to be serialized or received data to be
\* deserialized is chosen.
InitCodec ==
    /\ Constructed
    /\ video = LongVideo
    /\ \/ \E m \in CodecMessages : applied = [op |-> "message", m |-> m]
       \/ \E data \in Undecodable : applied = [op |-> "data", data |-> data]

PipelineFrame ==
    UNCHANGED <<video, operated, chan, nsent, dropped, lastRecv, mgr, running, stop_event,
                pc, caller, starts, src, det, disp, web, eosSeen, eosFwd, detSum, nstops,
                nfails, webvars, logvars, handles>>

\* The sender serializes the message.
Codec_serialize ==
    /\ applied.op = "message"
    /\ applied' = [op |-> "serialized", m |-> applied.m, data |-> serialize(applied.m)]
    /\ PipelineFrame

\* The receiver deserializes what the sender made of the message ...
Codec_deserialize ==
    /\ applied.op = "serialized"
    /\ applied' = [op |-> "deserialized", m |-> applied.m, data |-> applied.data,
                   attempts |-> parse_attempts(applied.data),
                   out |-> deserialize(applied.data)]
    /\ PipelineFrame

\* ... or data that no serialize_* method made.
Codec_deserialize_data ==
    /\ applied.op = "data"
    /\ applied' = [op |-> "rejected", data |-> applied.data,
                   attempts |-> parse_attempts(applied.data),
                   out |-> deserialize(applied.data)]
    /\ PipelineFrame

NextCodec ==
    \/ Codec_serialize
    \/ Codec_deserialize
    \/ Codec_deserialize_data

CodecSpec == InitCodec /\ [][NextCodec]_vars


\* ---------------------------------------------------- the detector alone
\* Settings a MotionDetector is constructed with, the defaults among them.
Thresholds == {0, threshold, 254}
\* The minimum areas a detector is constructed with: 1, the default, twice
\* the default, and the contour area of the "edge" rectangle after the
\* default dilation, so that a contour of exactly the minimum area occurs.
MinAreas ==
    {1, min_area, 2 * min_area,
     contourArea([w |-> Rect("edge").w + 2 * dilate_iterations,
                  h |-> Rect("edge").h + 2 * dilate_iterations])}
DilateIterations == 0..(dilate_iterations + 1)

\* Gray values a rectangle takes: threshold and threshold + 1 above black,
\* and white.
Levels == {threshold, threshold + 1, 255}

\* The images of the videos, and images with one rectangle of one gray value
\* on the black background.
Images ==
    {Scene(n) : n \in Scenes}
    \cup {[r \in Regions |-> IF r = x THEN <<g, g, g>> ELSE Black] : x \in Regions, g \in Levels}

\* Before anything runs, a detector with its settings, the previous frame it
\* has stored and the frame it is given are chosen.
InitDetector ==
    /\ Constructed
    /\ video = LongVideo
    /\ \E prev \in Images, frame \in Images :
           \E t \in Thresholds, a \in MinAreas, n \in DilateIterations :
               applied = [op |-> "frame", prev |-> prev, frame |-> frame,
                          threshold |-> t, min_area |-> a, dilate_iterations |-> n]

\* _process_frame with a stored previous frame: the detections, and the gray
\* frame stored as the next previous one.
MotionDetector_apply ==
    /\ applied.op = "frame"
    /\ applied' = [op |-> "detected", prev |-> applied.prev, frame |-> applied.frame,
                   threshold |-> applied.threshold, min_area |-> applied.min_area,
                   dilate_iterations |-> applied.dilate_iterations,
                   thresh |-> threshold_binary(absdiff(cvtColor(applied.frame),
                                                       cvtColor(applied.prev)),
                                               applied.threshold),
                   detections |-> detect_motion(cvtColor(applied.frame),
                                                cvtColor(applied.prev),
                                                applied.threshold, applied.min_area,
                                                applied.dilate_iterations),
                   prev_frame |-> cvtColor(applied.frame)]
    /\ PipelineFrame

NextDetector == MotionDetector_apply

DetectorSpec == InitDetector /\ [][NextDetector]_vars

\* ------------------------------------------- the web streamer and its clients
\* The receive loop and the generators of the /video_feed requests, one
\* statement of the lock-protected regions per step.
MaxQueued == 3
MaxReads == 2

\* _create_waiting_frame: the JPEG bytes of the "Waiting for video stream..."
\* image.
WebStreamer_create_waiting_frame ==
    [frame_id |-> -1, frame |-> "waiting", detections |-> <<>>]

\* The results of the first n frames of the long video, as the detector
\* produces them and the display forwards them.
ResultOf(i) ==
    DetectionResult_create(FrameData_create(i - 1, LongVideo[i]),
                           IF i = 1 THEN <<>> ELSE MotionBetween[LongVideo[i - 1], LongVideo[i]])

\* What the display has queued for the web streamer when it starts: the
\* first results, and the end_of_stream after them or not yet.
WebQueues ==
    {[i \in 1..n |-> <<i, serialize_detection_result(ResultOf(i))>>] : n \in 0..MaxQueued}
    \cup {[i \in 1..(n + 1) |->
              IF i <= n THEN <<i, serialize_detection_result(ResultOf(i))>>
              ELSE <<i, serialize_system_message(
                            SystemMessage("end_of_stream", [total_frames |-> n]))>>] :
          n \in 0..MaxQueued}

\* start_streaming has succeeded, the receive loop is at its first receive,
\* and no client has read yet.
InitWeb ==
    /\ video = LongVideo /\ operated = None /\ applied = NoCall
    /\ \E q \in WebQueues :
           chan = [e \in Endpoints |-> IF e = DISPLAY_TO_WEB THEN q ELSE <<>>]
    /\ nsent = [e \in Endpoints |-> Len(chan[e])]
    /\ dropped = [e \in Endpoints |-> 0]
    /\ lastRecv = [e \in Endpoints |-> 0]
    /\ mgr = [m \in Managers |-> IF m = "Web.frame_receiver" THEN "connected" ELSE None]
    /\ running = [s \in Stages |-> s = "Web"]
    /\ stop_event = [s \in Stages |-> FALSE]
    /\ pc = [s \in Stages |-> IF s = "Web" THEN "run" ELSE "none"]
    /\ caller = [s \in Stages |-> "idle"]
    /\ starts = [s \in Stages |-> IF s = "Web" THEN 1 ELSE 0]
    /\ src = [cap |-> None, pos |-> 0, current_frame_id |-> 0]
    /\ det = [prev_frame |-> None, frame_counter |-> 0, total_detections |-> 0]
    /\ disp = [current_frame_id |-> 0, total_frames_displayed |-> 0, total_detections_drawn |-> 0]
    /\ web = [current_frame_data |-> <<>>, frames_received |-> 0, frames_streamed |-> 0]
    /\ frame_lock = "free"
    /\ http = [r \in Clients |-> [pc |-> "top", frame_data |-> <<>>, reads |-> 0]]
    /\ webloop = [buffer |-> <<>>, updates |-> <<>>]
    /\ LoggerConstructed
    /\ handles = NoHandles
    /\ eosSeen = [s \in Stages |-> <<>>]
    /\ eosFwd = [s \in Stages |-> <<>>]
    /\ detSum = 0
    /\ nstops = 0
    /\ nfails = 0

\* What no step of the receive loop or of a generator changes.
WebFrame ==
    UNCHANGED <<video, operated, applied, logvars, handles, mgr, running, stop_event, caller, starts,
                src, det, disp, eosFwd, detSum, nstops, nfails>>

\* Mutation: the lock is taken whoever holds it.
Lock_acquire_unguarded(lock) == TRUE

\* threading.Lock: `with self.frame_lock` is entered when no thread holds it.
Lock_acquire(lock) == lock = "free"

\* _receive_loop up to the with statement: receive, and for a
\* DetectionResult the drawing and the encoding into the local buffer.
WebStreamer_loop_receive ==
    /\ pc["Web"] = "run"
    /\ recv_ready(mgr["Web.frame_receiver"], chan[DISPLAY_TO_WEB])
    /\ LET q == chan[DISPLAY_TO_WEB]
           message == receive(mgr["Web.frame_receiver"], q)
       IN
       /\ lastRecv' = [lastRecv EXCEPT ![DISPLAY_TO_WEB] = recv_data(q)[1]]
       /\ IF message.kind = "DetectionResult"
          THEN /\ chan' = [chan EXCEPT ![DISPLAY_TO_WEB] = recv_rest(q)]
               /\ webloop' = [webloop EXCEPT !.buffer = <<WebStreamer_encode(message)>>]
               /\ pc' = [pc EXCEPT !["Web"] = "with"]
               /\ UNCHANGED <<nsent, dropped, eosSeen>>
          ELSE IF is_end_of_stream(message)
          THEN LET log1 == WebStreamer_log(EP(LOGGING_CHANNEL), <<<<"INFO", "Video stream ended">>>>)
               IN  /\ chan' = [chan EXCEPT ![DISPLAY_TO_WEB] = recv_rest(q),
                                           ![LOGGING_CHANNEL] = log1.q]
                   /\ nsent' = [nsent EXCEPT ![LOGGING_CHANNEL] = log1.n]
                   /\ dropped' = [dropped EXCEPT ![LOGGING_CHANNEL] = log1.d]
                   /\ eosSeen' = [eosSeen EXCEPT !["Web"] = Append(@, message.payload)]
                   /\ pc' = [pc EXCEPT !["Web"] = "dead"]
                   /\ UNCHANGED webloop
          ELSE /\ chan' = [chan EXCEPT ![DISPLAY_TO_WEB] = recv_rest(q)]
               /\ pc' = [pc EXCEPT !["Web"] = AfterIteration("Web")]
               /\ UNCHANGED <<nsent, dropped, eosSeen, webloop>>
    /\ WebFrame
    /\ UNCHANGED <<web, frame_lock, http>>

\* with self.frame_lock: in _receive_loop.
WebStreamer_loop_lock ==
    /\ pc["Web"] = "with"
    /\ Lock_acquire(frame_lock)
    /\ frame_lock' = "loop"
    /\ pc' = [pc EXCEPT !["Web"] = "store"]
    /\ WebFrame
    /\ UNCHANGED <<chan, nsent, dropped, lastRecv, web, http, webloop, eosSeen>>

\* self.current_frame_data = buffer.tobytes()
WebStreamer_loop_store ==
    /\ pc["Web"] = "store"
    /\ web' = [web EXCEPT !.current_frame_data = webloop.buffer]
    /\ webloop' = [webloop EXCEPT !.updates = Append(@, webloop.buffer[1])]
    /\ pc' = [pc EXCEPT !["Web"] = "count"]
    /\ WebFrame
    /\ UNCHANGED <<chan, nsent, dropped, lastRecv, frame_lock, http, eosSeen>>

\* self.frames_received += 1
WebStreamer_loop_count ==
    /\ pc["Web"] = "count"
    /\ web' = [web EXCEPT !.frames_received = @ + 1]
    /\ pc' = [pc EXCEPT !["Web"] = "release"]
    /\ WebFrame
    /\ UNCHANGED <<chan, nsent, dropped, lastRecv, frame_lock, http, webloop, eosSeen>>

\* The end of the with block, and the while condition.
WebStreamer_loop_release ==
    /\ pc["Web"] = "release"
    /\ frame_lock' = "free"
    /\ pc' = [pc EXCEPT !["Web"] = AfterIteration("Web")]
    /\ WebFrame
    /\ UNCHANGED <<chan, nsent, dropped, lastRecv, web, http, webloop, eosSeen>>

\* What a step of the generator of client r leaves alone.
GeneratorFrame ==
    /\ WebFrame
    /\ UNCHANGED <<chan, nsent, dropped, lastRecv, pc, webloop, eosSeen>>

\* with self.frame_lock: in _generate_frames.
WebStreamer_generate_lock(r) ==
    /\ http[r].pc = "top"
    /\ http[r].reads < MaxReads
    /\ Lock_acquire(frame_lock)
    /\ frame_lock' = r
    /\ http' = [http EXCEPT ![r].pc = "with"]
    /\ GeneratorFrame
    /\ UNCHANGED web

\* Mutation: the generator takes the frame out of the slot.
WebStreamer_generate_read_taking(w) ==
    IF w.current_frame_data # <<>>
    THEN [frame_data |-> w.current_frame_data[1],
          web |-> [w EXCEPT !.current_frame_data = <<>>, !.frames_streamed = @ + 1]]
    ELSE [frame_data |-> WebStreamer_create_waiting_frame, web |-> w]

\* The body of the with block of _generate_frames: the frame the generator
\* will yield, and the WebStreamer's fields after it.
WebStreamer_generate_read(w) ==
    IF w.current_frame_data # <<>>
    THEN [frame_data |-> w.current_frame_data[1],
          web |-> [w EXCEPT !.frames_streamed = @ + 1]]
    ELSE [frame_data |-> WebStreamer_create_waiting_frame, web |-> w]

WebStreamer_generate_body(r) ==
    /\ http[r].pc = "with"
    /\ http' = [http EXCEPT ![r].pc = "release",
                            ![r].frame_data = <<WebStreamer_generate_read(web).frame_data>>]
    /\ web' = WebStreamer_generate_read(web).web
    /\ GeneratorFrame
    /\ UNCHANGED frame_lock

\* The end of the with block.
WebStreamer_generate_release(r) ==
    /\ http[r].pc = "release"
    /\ frame_lock' = "free"
    /\ http' = [http EXCEPT ![r].pc = "yield"]
    /\ GeneratorFrame
    /\ UNCHANGED web

\* yield of the multipart chunk, and time.sleep(0.033).
WebStreamer_generate_yield(r) ==
    /\ http[r].pc = "yield"
    /\ http' = [http EXCEPT ![r].pc = "top", ![r].reads = @ + 1]
    /\ GeneratorFrame
    /\ UNCHANGED <<web, frame_lock>>

NextWeb ==
    \/ WebStreamer_loop_receive
    \/ WebStreamer_loop_lock
    \/ WebStreamer_loop_store
    \/ WebStreamer_loop_count
    \/ WebStreamer_loop_release
    \/ \E r \in Clients : WebStreamer_generate_lock(r)
    \/ \E r \in Clients : WebStreamer_generate_body(r)
    \/ \E r \in Clients : WebStreamer_generate_release(r)
    \/ \E r \in Clients : WebStreamer_generate_yield(r)

WebSpec == InitWeb /\ [][NextWeb]_vars


\* ------------------------------------------------------ the logging service
\* utils/centralized_logger.py: CentralizedLogger receiving the records that
\* the PipelineLoggers of two components push on the logging endpoint.
MaxRecords == 2
MaxLogStarts == 2
MaxLogStops == 2

\* The records a component logs, in its order: level and text.
LogScript ==
    <<<<"INFO", "Communication established">>,
      <<"ERROR", "Frame processing failed">>,
      <<"DEBUG", "Web forward timeout">>,
      <<"INFO", "Stopped">>>>

\* The manager field of the PipelineLogger of component c.
LogSenderOf(c) ==
    IF c = "Display" THEN "Display.logger.log_sender" ELSE "Web.pipeline_logger.log_sender"

\* The two PipelineLoggers are set up, the service is constructed, and no
\* log file exists.
InitAggregator ==
    /\ video = LongVideo /\ operated = None /\ applied = NoCall
    /\ chan = [e \in Endpoints |-> <<>>]
    /\ nsent = [e \in Endpoints |-> 0]
    /\ dropped = [e \in Endpoints |-> 0]
    /\ lastRecv = [e \in Endpoints |-> 0]
    /\ mgr = [m \in Managers |->
                 IF m \in {LogSenderOf(c) : c \in LogProducers} THEN "connected" ELSE None]
    /\ running = [s \in Stages |-> FALSE]
    /\ stop_event = [s \in Stages |-> FALSE]
    /\ pc = [s \in Stages |-> "none"]
    /\ caller = [s \in Stages |-> "idle"]
    /\ starts = [s \in Stages |-> 0]
    /\ src = [cap |-> None, pos |-> 0, current_frame_id |-> 0]
    /\ det = [prev_frame |-> None, frame_counter |-> 0, total_detections |-> 0]
    /\ disp = [current_frame_id |-> 0, total_frames_displayed |-> 0, total_detections_drawn |-> 0]
    /\ web = [current_frame_data |-> <<>>, frames_received |-> 0, frames_streamed |-> 0]
    /\ frame_lock = "free"
    /\ http = [r \in Clients |-> [pc |-> "top", frame_data |-> <<>>, reads |-> 0]]
    /\ webloop = [buffer |-> <<>>, updates |-> <<>>]
    /\ LoggerConstructed
    /\ handles = NoHandles
    /\ eosSeen = [s \in Stages |-> <<>>]
    /\ eosFwd = [s \in Stages |-> <<>>]
    /\ detSum = 0
    /\ nstops = 0
    /\ nfails = 0

\* What no step of the service or of a PipelineLogger changes.
AggregatorFrame ==
    UNCHANGED <<video, operated, applied, webvars, handles, mgr, running, stop_event, pc, caller, starts,
                src, det, disp, web, eosSeen, eosFwd, detSum, nstops, nfails>>

\* A component logs its next record: PipelineLogger._send_log.
PipelineLogger_log(c) ==
    /\ producer[c] < MaxRecords
    /\ producer[c] < Len(LogScript)
    /\ LET record == LogScript[producer[c] + 1]
       IN  SetEP(LOGGING_CHANNEL,
                 PipelineLogger_send_log(EP(LOGGING_CHANNEL), mgr[LogSenderOf(c)],
                                         record[1], c, record[2]))
    /\ producer' = [producer EXCEPT ![c] = @ + 1]
    /\ AggregatorFrame
    /\ UNCHANGED <<lastRecv, logsvc, log_file>>

\* dict.get(key, default)
dict_get(d, key, default) == IF key \in DOMAIN d THEN d[key] ELSE default

\* d[key] = value
dict_set(d, key, value) == [k \in DOMAIN d \cup {key} |-> IF k = key THEN value ELSE d[k]]

\* _write_log_header: the file is opened with mode 'w'.
Logger_write_log_header(file) == <<[kind |-> "header"]>>

\* LogMessage.format_message, without the time of day.
LogMessage_format_message(log_msg) ==
    [kind |-> "record", level |-> log_msg.level, component |-> log_msg.component,
     message |-> log_msg.message]

\* Mutation: the line is written at the top of the file.
Logger_write_line_first(file, line) == <<line>> \o file

\* open(self.log_file, 'a') ... f.write(formatted_message + '\n')
Logger_write_line(file, line) == Append(file, line)

\* Mutation: the count of a component starts again with every record.
Logger_count_restarting(d, key) == dict_set(d, key, 1)

\* d[key] = d.get(key, 0) + 1
Logger_count(d, key) == dict_set(d, key, dict_get(d, key, 0) + 1)

\* _write_log_footer: the summary, appended.
Logger_write_log_footer(file, svc) ==
    Append(file,
           [kind |-> "footer", total |-> svc.messages_logged,
            by_level |-> [l \in {x \in DOMAIN svc.messages_by_level :
                                     svc.messages_by_level[x] > 0} |->
                             svc.messages_by_level[l]],
            by_component |-> svc.messages_by_component])

\* start_logging on a service that is not running; ok says whether the log
\* receiver's socket starts.
Logger_start_logging(ok) ==
    /\ logsvc.caller = "idle"
    /\ ~logsvc.is_running
    /\ logsvc.pc \in {"none", "dead"}
    /\ logsvc.starts < MaxLogStarts
    /\ IF ok
       THEN /\ log_file' = Logger_write_log_header(log_file)
            /\ logsvc' = [logsvc EXCEPT !.log_receiver = "connected",
                                        !.messages_logged = 0,
                                        !.messages_by_level = [l \in LogLevels |-> 0],
                                        !.messages_by_component = <<>>,
                                        !.stop_event = FALSE,
                                        !.pc = "receive",
                                        !.message = <<>>,
                                        !.is_running = TRUE,
                                        !.starts = @ + 1]
       ELSE /\ logsvc' = [logsvc EXCEPT !.log_receiver = "unconnected", !.starts = @ + 1]
            /\ UNCHANGED log_file
    /\ AggregatorFrame
    /\ UNCHANGED <<chan, nsent, dropped, lastRecv, producer>>

\* stop_logging up to the join.
Logger_stop_logging_begin ==
    /\ logsvc.caller = "idle"
    /\ logsvc.is_running
    /\ logsvc.stops < MaxLogStops
    /\ logsvc' = [logsvc EXCEPT !.stop_event = TRUE, !.caller = "joining", !.stops = @ + 1]
    /\ AggregatorFrame
    /\ UNCHANGED <<chan, nsent, dropped, lastRecv, producer, log_file>>

\* stop_logging after join(timeout=2.0) has returned, the thread ended or
\* not: the footer, then _cleanup.
Logger_stop_logging_end ==
    /\ logsvc.caller = "joining"
    /\ log_file' = Logger_write_log_footer(log_file, logsvc)
    /\ logsvc' = [logsvc EXCEPT !.is_running = FALSE,
                                !.log_receiver = cleanup_manager(@),
                                !.caller = "idle"]
    /\ AggregatorFrame
    /\ UNCHANGED <<chan, nsent, dropped, lastRecv, producer>>

\* Where the logging thread is after an iteration.
Logger_after_iteration == IF logsvc.stop_event THEN "dead" ELSE "receive"

\* _logging_loop: receive returns a message.  A LogMessage is handed to
\* _process_log_message; anything else is passed over.
Logger_loop_receive ==
    /\ logsvc.pc = "receive"
    /\ recv_ready(logsvc.log_receiver, chan[LOGGING_CHANNEL])
    /\ LET q == chan[LOGGING_CHANNEL]
           message == receive(logsvc.log_receiver, q)
       IN  /\ chan' = [chan EXCEPT ![LOGGING_CHANNEL] = recv_rest(q)]
           /\ lastRecv' = [lastRecv EXCEPT ![LOGGING_CHANNEL] = recv_data(q)[1]]
           /\ logsvc' = IF message.kind = "LogMessage"
                        THEN [logsvc EXCEPT !.pc = "process", !.message = <<message>>]
                        ELSE [logsvc EXCEPT !.pc = Logger_after_iteration]
    /\ AggregatorFrame
    /\ UNCHANGED <<nsent, dropped, producer, log_file>>

\* _process_log_message: the line, then the statistics.
Logger_process_log_message ==
    /\ logsvc.pc = "process"
    /\ LET log_msg == logsvc.message[1]
       IN  /\ log_file' = Logger_write_line(log_file, LogMessage_format_message(log_msg))
           /\ logsvc' = [logsvc EXCEPT
                  !.messages_logged = @ + 1,
                  !.messages_by_level = Logger_count(@, log_msg.level),
                  !.messages_by_component = Logger_count(@, log_msg.component),
                  !.message = <<>>,
                  !.pc = Logger_after_iteration]
    /\ AggregatorFrame
    /\ UNCHANGED <<chan, nsent, dropped, lastRecv, producer>>

\* The loop ends: receive has returned None and the flag is found set.
Logger_loop_exit ==
    /\ logsvc.pc = "receive"
    /\ logsvc.stop_event
    /\ logsvc' = [logsvc EXCEPT !.pc = "dead"]
    /\ AggregatorFrame
    /\ UNCHANGED <<chan, nsent, dropped, lastRecv, producer, log_file>>

NextAggregator ==
    \/ \E c \in LogProducers : PipelineLogger_log(c)
    \/ \E ok \in BOOLEAN : Logger_start_logging(ok)
    \/ Logger_stop_logging_begin
    \/ Logger_stop_logging_end
    \/ Logger_loop_receive
    \/ Logger_process_log_message
    \/ Logger_loop_exit

AggregatorSpec == InitAggregator /\ [][NextAggregator]_vars


\* ------------------------------------------------------ one channel's handles
\* communication/zmq_manager.py: a PUSH and a PULL ZMQManager on one
\* endpoint, with start, stop, send and receive called in any order.
MaxCalls == 4

Handles == {"push", "pull"}

\* ZMQManager.__init__: the context and the socket exist, is_connected is
\* False.  closes counts the socket.close() calls, stops the stop() calls
\* and calls the method calls made on the handle.
ZMQManager_init ==
    [is_connected |-> FALSE, socket |-> "open", context |-> "live", closes |-> 0, stops |-> 0,
     calls |-> 0]

\* The field of a component that holds the manager x, as the send and receive
\* operators read it.
ManagerOf(x) == IF x.is_connected THEN "connected" ELSE "unconnected"

InitChannel ==
    /\ video = LongVideo /\ operated = None
    /\ applied = [op |-> "init", handle |-> "none", ret |-> "None", seq |-> 0]
    /\ chan = [e \in Endpoints |-> <<>>]
    /\ nsent = [e \in Endpoints |-> 0]
    /\ dropped = [e \in Endpoints |-> 0]
    /\ lastRecv = [e \in Endpoints |-> 0]
    /\ mgr = [m \in Managers |-> None]
    /\ running = [s \in Stages |-> FALSE]
    /\ stop_event = [s \in Stages |-> FALSE]
    /\ pc = [s \in Stages |-> "none"]
    /\ caller = [s \in Stages |-> "idle"]
    /\ starts = [s \in Stages |-> 0]
    /\ src = [cap |-> None, pos |-> 0, current_frame_id |-> 0]
    /\ det = [prev_frame |-> None, frame_counter |-> 0, total_detections |-> 0]
    /\ disp = [current_frame_id |-> 0, total_frames_displayed |-> 0, total_detections_drawn |-> 0]
    /\ web = [current_frame_data |-> <<>>, frames_received |-> 0, frames_streamed |-> 0]
    /\ frame_lock = "free"
    /\ http = [r \in Clients |-> [pc |-> "top", frame_data |-> <<>>, reads |-> 0]]
    /\ webloop = [buffer |-> <<>>, updates |-> <<>>]
    /\ LoggerConstructed
    /\ handles = [h \in Handles |-> ZMQManager_init]
    /\ eosSeen = [s \in Stages |-> <<>>]
    /\ eosFwd = [s \in Stages |-> <<>>]
    /\ detSum = 0
    /\ nstops = 0
    /\ nfails = 0

\* What a call on a handle leaves alone.
ChannelFrame ==
    UNCHANGED <<video, operated, webvars, logvars, mgr, running, stop_event, pc, caller, starts,
                src, det, disp, web, eosSeen, eosFwd, detSum, nstops, nfails>>

\* The call that has just returned.
Returned(op, h, ret) ==
    applied' = [op |-> op, handle |-> h, ret |-> ret, seq |-> applied.seq + 1]

Called(h, x) == [handles EXCEPT ![h] = [x EXCEPT !.calls = @ + 1]]

\* start(): bind or connect; is_connected is set when the socket call did not
\* raise.  ok says whether it raised; on a closed socket it does.
ZMQManager_start(h, ok) ==
    /\ handles[h].calls < MaxCalls
    /\ ok => handles[h].socket = "open"
    /\ handles' = Called(h, IF ok THEN [handles[h] EXCEPT !.is_connected = TRUE] ELSE handles[h])
    /\ Returned("start", h, IF ok THEN "True" ELSE "False")
    /\ ChannelFrame
    /\ UNCHANGED <<chan, nsent, dropped, lastRecv>>

\* Mutation: stop() without its is_connected test.
ZMQManager_stop_unguarded(x) ==
    [x EXCEPT !.socket = "closed", !.context = "terminated", !.is_connected = FALSE,
              !.closes = @ + 1]

\* stop(): socket.close(), context.term() and is_connected = False, on a
\* connected handle only.
ZMQManager_stop_handle(x) ==
    IF x.is_connected
    THEN [x EXCEPT !.socket = "closed", !.context = "terminated", !.is_connected = FALSE,
                   !.closes = @ + 1]
    ELSE x

ZMQManager_stop_call(h) ==
    /\ handles[h].calls < MaxCalls
    /\ handles' = Called(h, [ZMQManager_stop_handle(handles[h]) EXCEPT !.stops = @ + 1])
    /\ Returned("stop", h, "None")
    /\ ChannelFrame
    /\ UNCHANGED <<chan, nsent, dropped, lastRecv>>

\* What the PUSH handle is given to send.
ChannelMessages ==
    {serialize_frame_data(FrameData_create(applied.seq, "bg")),
     serialize_system_message(SystemMessage("end_of_stream", [total_frames |-> applied.seq]))}

\* send_frame_data / send_system_message on the PUSH handle.
ZMQManager_send(h, data) ==
    /\ h = "push"
    /\ handles[h].calls < MaxCalls
    /\ SetEP(STREAMER_TO_DETECTOR, Push(EP(STREAMER_TO_DETECTOR), ManagerOf(handles[h]), data))
    /\ handles' = Called(h, handles[h])
    /\ Returned("send", h,
                IF send_ok(ManagerOf(handles[h]), chan[STREAMER_TO_DETECTOR])
                THEN "True" ELSE "False")
    /\ ChannelFrame
    /\ UNCHANGED lastRecv

\* receive on the PULL handle: a message, or None when the handle is not
\* connected or nothing is queued within the timeout.
ZMQManager_receive(h) ==
    /\ h = "pull"
    /\ handles[h].calls < MaxCalls
    /\ LET q == chan[STREAMER_TO_DETECTOR]
           manager == ManagerOf(handles[h])
       IN  IF recv_ready(manager, q)
           THEN /\ chan' = [chan EXCEPT ![STREAMER_TO_DETECTOR] = recv_rest(q)]
                /\ lastRecv' = [lastRecv EXCEPT ![STREAMER_TO_DETECTOR] = recv_data(q)[1]]
                /\ Returned("receive", h, receive(manager, q).kind)
           ELSE /\ UNCHANGED <<chan, lastRecv>>
                /\ Returned("receive", h, "None")
    /\ handles' = Called(h, handles[h])
    /\ ChannelFrame
    /\ UNCHANGED <<nsent, dropped>>

NextChannel ==
    \/ \E h \in Handles, ok \in BOOLEAN : ZMQManager_start(h, ok)
    \/ \E h \in Handles : ZMQManager_stop_call(h)
    \/ \E h \in Handles : \E data \in ChannelMessages : ZMQManager_send(h, data)
    \/ \E h \in Handles : ZMQManager_receive(h)

ChannelSpec == InitChannel /\ [][NextChannel]_vars


\* ============================================================== properties
\* The numbers n of the messages queued on q.
Tags(q) == {q[i][1] : i \in 1..Len(q)}

\* The send calls made on endpoint e so far, successful or not.
Calls(e) == nsent[e] + dropped[e]

\* The end_of_stream send calls of stage s, this run, that returned True.
Forwarded(s) == SelectSeq(eosFwd[s], LAMBDA f : f.ok)

Intermediate == {"Detector", "Display"}

\* The manager fields of a stage.
ManagersOf(s) ==
    CASE s = "Streamer" -> {"Streamer.sender"}
      [] s = "Detector" -> {"Detector.frame_receiver", "Detector.result_sender"}
      [] s = "Display" -> {"Display.result_receiver", "Display.web_sender"}
      [] s = "Web" -> {"Web.frame_receiver"}

\* The manager field through which send calls on endpoint e are made.
SenderOf(e) ==
    CASE e = STREAMER_TO_DETECTOR -> "Streamer.sender"
      [] e = DETECTOR_TO_DISPLAY -> "Detector.result_sender"
      [] e = DISPLAY_TO_WEB -> "Display.web_sender"
      [] e = LOGGING_CHANNEL -> "Display.logger.log_sender"

\* C1: an intermediate stage (detector, display) whose loop received
\* end_of_stream has, when its loop thread has ended, enqueued exactly one
\* end_of_stream on its downstream channel.
C1_ForwardsExactlyOne ==
    \A s \in Intermediate :
        (pc[s] = "dead" /\ eosSeen[s] # <<>>) => Len(Forwarded(s)) = 1

\* The detector's loop received end_of_stream while ten results were still
\* queued for the display: its own end_of_stream send returned False.
C1_Reached ==
    /\ pc["Detector"] = "dead"
    /\ eosSeen["Detector"] # <<>>
    /\ Len(eosFwd["Detector"]) = 1
    /\ Len(Forwarded("Detector")) = 0
    /\ mgr["Detector.result_sender"] = "connected"
    /\ Len(chan[DETECTOR_TO_DISPLAY]) = HWM

\* C2: in one run of the stream loop the source creates at most one
\* end_of_stream, exactly one by the time the loop thread ends, and hands it
\* to its sender (one send call, none when stop_streaming has cleared the
\* sender meanwhile); the one created on exhaustion carries the number of frames of the video, an
\* enqueued end_of_stream is the newest message of the source-to-detector
\* channel, and no send call follows it on that channel in that run.
C2_OneEndOfStreamLast ==
    [][LET e == STREAMER_TO_DETECTOR
           before == eosFwd["Streamer"]
           after == eosFwd["Streamer"]'
       IN  /\ Len(after) <= 1
           /\ pc["Streamer"]' = "dead" => Len(after) = 1
           /\ (before # <<>> /\ after # <<>>) => Calls(e)' = Calls(e)
           /\ (before = <<>> /\ after # <<>>) =>
                 /\ Calls(e)' = Calls(e) + (IF mgr["Streamer.sender"] = None THEN 0 ELSE 1)
                 /\ src.pos = Len(video) => after[1].payload = [total_frames |-> Len(video)]
                 /\ after[1].ok =>
                       LET q == chan[e]'
                       IN  /\ q # <<>>
                           /\ q[Len(q)][1] = nsent[e]'
                           /\ deserialize(q[Len(q)][2]) =
                                  SystemMessage("end_of_stream", after[1].payload)
      ]_vars

\* The source read its whole video, which has frames, and its end_of_stream
\* was enqueued; its loop thread has ended.
C2_Reached ==
    /\ pc["Streamer"] = "dead"
    /\ src.pos = Len(video)
    /\ Len(video) > 0
    /\ Len(Forwarded("Streamer")) = 1

\* C3: the step in which the web streamer's receive loop takes an
\* end_of_stream ends the loop thread and makes no send call on any endpoint.
C3_TerminalConsumes ==
    [][Len(eosSeen["Web"]') > Len(eosSeen["Web"]) =>
           /\ pc["Web"]' = "dead"
           /\ \A e \in Endpoints : Calls(e)' = Calls(e) /\ Len(chan[e]') <= Len(chan[e])
      ]_vars

\* The web streamer's loop has taken an end_of_stream and ended.
C3_Reached ==
    /\ eosSeen["Web"] # <<>>
    /\ pc["Web"] = "dead"
    /\ lastRecv[DISPLAY_TO_WEB] > 0

\* C4: on every endpoint the undelivered messages are queued in the order
\* of their sends, every one of them was sent after the message delivered
\* last, and nothing delivered or queued carries a number no send gave out.
C4_SendOrder ==
    \A e \in Endpoints :
        LET q == chan[e]
        IN  /\ lastRecv[e] <= nsent[e]
            /\ \A i \in 1..Len(q) : lastRecv[e] < q[i][1] /\ q[i][1] <= nsent[e]
            /\ \A i, j \in 1..Len(q) : i < j => q[i][1] < q[j][1]

\* The display has received the second message of the detector while a
\* later one is still queued.
C4_Reached ==
    /\ lastRecv[DETECTOR_TO_DISPLAY] = 2
    /\ Len(chan[DETECTOR_TO_DISPLAY]) >= 1


C6_SendOnce ==
    [][\A e \in Endpoints :
           LET q == chan[e]
               q2 == chan[e]'
           IN  /\ nsent[e]' = nsent[e] => (q2 = q \/ (q # <<>> /\ q2 = Tail(q)))
               /\ Tags(q2) \ Tags(q) = (nsent[e] + 1)..(nsent[e]')
               /\ Cardinality(Tags(q2)) = Len(q2)
               /\ Len(q2) - Len(q) \in {nsent[e]' - nsent[e], nsent[e]' - nsent[e] - 1}
               /\ lastRecv[e]' # lastRecv[e] =>
                      /\ lastRecv[e]' > lastRecv[e]
                      /\ lastRecv[e]' \notin Tags(q2)
                      /\ Len(q2) = Len(q) - 1
      ]_vars

\* On the detector-to-display channel a send has failed, others have
\* succeeded, and the display has received a message.
C6_Reached ==
    /\ dropped[DETECTOR_TO_DISPLAY] >= 1
    /\ nsent[DETECTOR_TO_DISPLAY] >= HWM
    /\ lastRecv[DETECTOR_TO_DISPLAY] >= 1
    /\ mgr["Detector.result_sender"] = "connected"

C8_StopsByItself ==
    \A s \in Intermediate :
        (pc[s] = "dead" /\ eosSeen[s] # <<>> /\ Len(Forwarded(s)) = 1) =>
            /\ ~running[s]
            /\ \A m \in ManagersOf(s) : mgr[m] # "connected"

\* The detector's loop thread has ended after forwarding end_of_stream; no
\* stop_*() call was made, and is_processing is still True with both
\* channels open.
C8_Reached ==
    /\ pc["Detector"] = "dead"
    /\ Len(Forwarded("Detector")) = 1
    /\ eosSeen["Detector"] # <<>>
    /\ nstops = 0
    /\ running["Detector"]
    /\ \A m \in ManagersOf("Detector") : mgr[m] = "connected"

\* The names of a stage's own counters in an end_of_stream payload.
OwnCounters(s) ==
    IF s = "Detector" THEN {"total_frames_processed", "total_detections"}
    ELSE {"total_frames_displayed", "total_detections_drawn"}

\* C9 as claimed: the end_of_stream an intermediate stage forwards has every
\* entry of the payload it received and the stage's own counters.
C9_MergedCounters ==
    \A s \in Intermediate :
        \A i \in 1..Len(eosFwd[s]) :
            eosSeen[s] # <<>> =>
                LET up == eosSeen[s][1]
                    out == eosFwd[s][i].payload
                IN  /\ DOMAIN up \subseteq DOMAIN out
                    /\ \A k \in DOMAIN up : out[k] = up[k]
                    /\ OwnCounters(s) \subseteq DOMAIN out

\* C9 as the code has it: the detector's end_of_stream carries the
\* detector's own two counters and nothing of the payload received; the
\* display's is the payload it received, without counters of the display.
C9_OwnOrUnchanged ==
    /\ \A i \in 1..Len(eosFwd["Detector"]) :
           pc["Detector"] = "dead" =>
               eosFwd["Detector"][i].payload =
                   [total_frames_processed |-> det.frame_counter,
                    total_detections |-> det.total_detections]
    /\ \A i \in 1..Len(eosFwd["Display"]) :
           /\ eosSeen["Display"] # <<>>
           /\ eosFwd["Display"][i].payload = eosSeen["Display"][1]

\* Detector and display have both forwarded an end_of_stream after
\* receiving one, the detector after processing frames.
C9_Reached ==
    /\ eosSeen["Detector"] # <<>> /\ Len(Forwarded("Detector")) = 1
    /\ eosSeen["Display"] # <<>> /\ Len(Forwarded("Display")) = 1
    /\ pc["Detector"] = "dead"
    /\ det.frame_counter > 0

\* C10: when no send on the source-to-detector channel failed and the
\* detector, started once, received the source's end_of_stream(total_frames
\* = N), the end_of_stream it creates has total_frames_processed = N and
\* total_detections = the number of detections in the results it produced.
C10_EndToEndCounters ==
    (/\ dropped[STREAMER_TO_DETECTOR] = 0
     /\ starts["Detector"] = 1
     /\ starts["Streamer"] = 1
     /\ eosSeen["Detector"] # <<>>
     /\ eosFwd["Detector"] # <<>>) =>
        LET out == eosFwd["Detector"][1].payload
        IN  /\ out.total_frames_processed = eosSeen["Detector"][1].total_frames
            /\ out.total_detections = detSum

\* The detector forwarded its end_of_stream after a video of two frames
\* with two moving objects in the second, nothing having been dropped.
C10_Reached ==
    /\ dropped[STREAMER_TO_DETECTOR] = 0
    /\ starts["Detector"] = 1
    /\ starts["Streamer"] = 1
    /\ eosSeen["Detector"] = <<[total_frames |-> 2]>>
    /\ Len(Forwarded("Detector")) = 1
    /\ detSum = 2


\* C11: a start_*() call in which a socket fails to start leaves the stage
\* idle: no loop thread, running flag and counters as they were, and none of
\* the stage's channels connected.
C11_FailedStartLeavesIdle ==
    [][\A s \in Stages :
           (starts[s]' = starts[s] + 1 /\ nfails' = nfails + 1) =>
               /\ running[s]' = running[s] /\ ~running[s]'
               /\ pc[s]' = pc[s]
               /\ src.current_frame_id' = src.current_frame_id
               /\ det' = det /\ disp' = disp /\ web' = web
               /\ \A m \in ManagersOf(s) : mgr[m]' # "connected"
      ]_vars

\* The detector's start failed at its result sender: the detector is idle
\* and its frame receiver, started first, is still connected.
C11_Reached ==
    /\ operated = "Detector" /\ nfails >= 1 /\ starts["Detector"] = 1
    /\ ~running["Detector"] /\ pc["Detector"] = "none"
    /\ mgr["Detector.frame_receiver"] = "connected"
    /\ mgr["Detector.result_sender"] = "unconnected"


\* C12: a step in which an exception is raised while a stage processes a
\* received message, the stop flag not being set, leaves the stage's loop
\* running.
C12_FailSoft ==
    [][\A s \in Stages :
           (s = operated /\ nfails' = nfails + 1 /\ starts' = starts /\ ~stop_event[s]) =>
               pc[s]' = "run"
      ]_vars

\* An exception raised while the web streamer handled a DetectionResult has
\* ended its receive loop: no end_of_stream was received and no stop called,
\* and the streamer still counts as streaming with its receiver connected.
C12_Reached ==
    /\ operated = "Web" /\ nfails >= 1 /\ nstops = 0 /\ starts["Web"] = 1
    /\ pc["Web"] = "dead" /\ eosSeen["Web"] = <<>>
    /\ running["Web"] /\ mgr["Web.frame_receiver"] = "connected"

\* The endpoint a consumer's loop receives from.
InputOf(s) ==
    CASE s = "Detector" -> STREAMER_TO_DETECTOR
      [] s = "Display" -> DETECTOR_TO_DISPLAY
      [] s = "Web" -> DISPLAY_TO_WEB

Consumers == {"Detector", "Display", "Web"}

\* C13: a step in which a consumer's loop receives data that deserialize
\* rejects (unrecognized type tag, or a body that does not parse for its
\* kind) drops that one message and does nothing else: the stage's fields
\* and counters are untouched (its processing function was not entered),
\* nothing is sent on any endpoint, no end of stream is recorded, and the
\* loop is still running afterwards unless it was told to stop.
C13_UndecodableDropped ==
    [][\A s \in Consumers :
           LET e == InputOf(s)
           IN  (lastRecv[e]' # lastRecv[e] /\ deserialize(Head(chan[e])[2]) = DeserializeError) =>
                   /\ chan[e]' = Tail(chan[e])
                   /\ \A f \in Endpoints \ {e} : chan[f]' = chan[f]
                   /\ nsent' = nsent /\ dropped' = dropped
                   /\ det' = det /\ disp' = disp /\ web' = web
                   /\ eosSeen' = eosSeen /\ eosFwd' = eosFwd
                   /\ pc[s] = "run"
                   /\ pc[s]' = "run" \/ stop_event[s] \/ ~running[s]
      ]_vars

\* Reached: the detector dropped a foreign message, numbered 1, and then
\* received and processed the only frame sent, numbered 2; its loop runs.
C13_Reached ==
    /\ operated = None /\ video # LongVideo
    /\ lastRecv[STREAMER_TO_DETECTOR] = 2 /\ src.current_frame_id = 1
    /\ det.frame_counter = 1 /\ pc["Detector"] = "run"
\* C14: deserializing what serialize_* made of a message of any of the five
\* kinds gives a message of the same kind with the same field values.
C14_RoundTrip ==
    applied.op = "deserialized" => applied.out = applied.m

\* Reached: a log message whose metadata holds a tuple came back, as a log
\* message of the same level, component and text, with a list in its place.
C14_Reached ==
    /\ applied.op = "deserialized"
    /\ applied.m.kind = "LogMessage" /\ applied.out.kind = "LogMessage"
    /\ applied.m.metadata = [roi |-> PyTuple(<<10, 20>>)]
    /\ applied.out.metadata = [roi |-> PyList(<<10, 20>>)]
    /\ applied.out.level = applied.m.level /\ applied.out.message = applied.m.message

\* C15: deserialize makes one parse attempt on its input, in the one format
\* the type tag selects, and never tries a second format after a first.
C15_SingleDispatch ==
    applied.op \in {"deserialized", "rejected"} => Len(applied.attempts) = 1

\* Reached: a serialized frame was deserialized correctly, by pickle.loads
\* after json.loads had been tried on it and had failed.
C15_Reached ==
    /\ applied.op = "deserialized"
    /\ applied.m.kind = "FrameData" /\ applied.out = applied.m
    /\ applied.attempts = <<"json", "pickle">>
\* C16: a step in which the detector processes a frame while it has no
\* stored previous frame produces no detection and stores that frame as the
\* previous one, and the result it sends has the frame's id and an empty
\* detection list; every step that starts the detection loop leaves the
\* detector without a previous frame, as construction does.
C16_FirstFrameIsReference ==
    [][/\ (det.frame_counter' = det.frame_counter + 1 /\ nfails' = nfails
           /\ det.prev_frame = None) =>
              LET frame_data == deserialize(Head(chan[STREAMER_TO_DETECTOR])[2])
                  q == chan[DETECTOR_TO_DISPLAY]'
              IN  /\ det.prev_frame' = frame_data.frame
                  /\ detSum' = detSum /\ det.total_detections' = det.total_detections
                  /\ nsent[DETECTOR_TO_DISPLAY]' # nsent[DETECTOR_TO_DISPLAY] =>
                         /\ deserialize(q[Len(q)][2]).kind = "DetectionResult"
                         /\ deserialize(q[Len(q)][2]).frame_id = frame_data.frame_id
                         /\ deserialize(q[Len(q)][2]).detections = <<>>
       /\ (pc["Detector"] # "run" /\ pc["Detector"]' = "run") => det.prev_frame' = None
      ]_vars

\* Reached: the detector, started a second time in the middle of a video,
\* has processed the frame with two moving regions as its first frame: no
\* detection was produced and the result was sent.
C16_Reached ==
    /\ starts["Detector"] = 2 /\ nfails = 0
    /\ det.frame_counter = 1 /\ det.prev_frame = "two" /\ detSum = 0
    /\ nsent[DETECTOR_TO_DISPLAY] = 2
Changed(a, b) == {r \in Regions : a[r] # b[r]}

GrayDiff(a, b, r) == Abs(BGR2GRAY(a[r]) - BGR2GRAY(b[r]))

C19_Confidence ==
    applied.op = "detected" =>
        \A i \in 1..Len(applied.detections) :
            LET d == applied.detections[i]
            IN  /\ d.area < ConfidenceScale => d.confidence = d.area
                /\ d.area >= ConfidenceScale => d.confidence = ConfidenceScale
                /\ 0 <= d.confidence /\ d.confidence <= ConfidenceScale
                /\ \A j \in 1..Len(applied.detections) :
                       d.area <= applied.detections[j].area =>
                           d.confidence <= applied.detections[j].confidence

\* Reached: one result with a detection of area above 10000, of confidence
\* 1.0, and a detection of a smaller area, of a smaller confidence.
C19_Reached ==
    /\ applied.op = "detected" /\ Len(applied.detections) = 2
    /\ \E i, j \in 1..2 :
           /\ applied.detections[i].area > ConfidenceScale
           /\ applied.detections[i].confidence = ConfidenceScale
           /\ applied.detections[j].area < ConfidenceScale
           /\ applied.detections[j].confidence = applied.detections[j].area
\* The message a step has put on endpoint e, where it has put one.
Sent(e) == deserialize(chan[e]'[Len(chan[e]')][2])

\* C20: a step that puts a DetectionResult on detector_display is a step of
\* the detector receiving a frame, and the result has that frame's id; a
\* step that puts a DetectionResult on display_web is a step of the display
\* receiving a result, and the result forwarded has the frame_id and the
\* detection list of the one received.
C20_FrameIdKept ==
    [][/\ (/\ nsent[DETECTOR_TO_DISPLAY]' = nsent[DETECTOR_TO_DISPLAY] + 1
           /\ Sent(DETECTOR_TO_DISPLAY).kind = "DetectionResult") =>
              /\ lastRecv[STREAMER_TO_DETECTOR]' # lastRecv[STREAMER_TO_DETECTOR]
              /\ deserialize(Head(chan[STREAMER_TO_DETECTOR])[2]).kind = "FrameData"
              /\ Sent(DETECTOR_TO_DISPLAY).frame_id =
                     deserialize(Head(chan[STREAMER_TO_DETECTOR])[2]).frame_id
       /\ (/\ nsent[DISPLAY_TO_WEB]' = nsent[DISPLAY_TO_WEB] + 1
           /\ Sent(DISPLAY_TO_WEB).kind = "DetectionResult") =>
              /\ lastRecv[DETECTOR_TO_DISPLAY]' # lastRecv[DETECTOR_TO_DISPLAY]
              /\ deserialize(Head(chan[DETECTOR_TO_DISPLAY])[2]).kind = "DetectionResult"
              /\ Sent(DISPLAY_TO_WEB).frame_id =
                     deserialize(Head(chan[DETECTOR_TO_DISPLAY])[2]).frame_id
              /\ Sent(DISPLAY_TO_WEB).detections =
                     deserialize(Head(chan[DETECTOR_TO_DISPLAY])[2]).detections
      ]_vars

\* Reached: the result of frame 1, with its two detections, is queued for the
\* web streamer after the display forwarded it.
C20_Reached ==
    \E i \in 1..Len(chan[DISPLAY_TO_WEB]) :
        LET m == deserialize(chan[DISPLAY_TO_WEB][i][2])
        IN  /\ m.kind = "DetectionResult" /\ m.frame_id = 1
            /\ Len(m.detections) = 2
            /\ disp.current_frame_id = 1


\* The frame a read gets while the slot is as it is now: the value of the
\* last update, or the waiting frame when there has been none.
Observable ==
    IF webloop.updates = <<>> THEN WebStreamer_create_waiting_frame
    ELSE webloop.updates[Len(webloop.updates)]

\* Client r executes the body of its with block in this step.
Reads(r) == http[r].pc = "with" /\ http'[r].pc = "release"

\* C21: the web streamer keeps one slot.  The slot is empty until the first
\* update and holds the value of the last update afterwards; a read by a
\* client gets that value, or the waiting frame while there has been no
\* update, and leaves the slot as it was.
C21_SingleSlot ==
    [][/\ web'.current_frame_data =
              (IF webloop'.updates = <<>> THEN <<>>
               ELSE <<webloop'.updates[Len(webloop'.updates)]>>)
       /\ \A r \in Clients :
              Reads(r) => /\ http'[r].frame_data = <<Observable>>
                          /\ web'.current_frame_data = web.current_frame_data]_vars

\* Two updates have been stored, a client has read the second and another
\* client, earlier, the waiting frame; the slot still holds the second.
C21_Reached ==
    /\ Len(webloop.updates) = 2
    /\ webloop.updates[1] # webloop.updates[2]
    /\ web.current_frame_data = <<webloop.updates[2]>>
    /\ \E r, o \in Clients :
           /\ http[r].pc = "yield" /\ http[r].frame_data = <<webloop.updates[2]>>
           /\ http[o].reads = 1 /\ http[o].frame_data = <<WebStreamer_create_waiting_frame>>


\* Client r is inside the with block of _generate_frames.
InBlock(r) == http[r].pc \in {"with", "release"}

\* The receive loop is inside the with block of its update.
Updating == pc["Web"] \in {"store", "count", "release"}

\* C22: whatever the interleaving of the receive loop and the clients' reads,
\* a client inside its with block holds the lock, the loop is not inside an
\* update, the slot and the counter of updates are those of complete updates
\* only, and the frame a client has read is the waiting frame or a value an
\* update stored.
C22_NoTornRead ==
    /\ \A r \in Clients :
           InBlock(r) => /\ frame_lock = r
                         /\ ~Updating
                         /\ web.frames_received = Len(webloop.updates)
    /\ Updating => frame_lock = "loop"
    /\ \A r \in Clients :
           http[r].frame_data # <<>> =>
               \/ http[r].frame_data[1] = WebStreamer_create_waiting_frame
               \/ \E i \in 1..Len(webloop.updates) : http[r].frame_data[1] = webloop.updates[i]

\* Contention: a client is inside its with block while the loop has a frame
\* encoded and waits for the lock, and the other client waits to read too.
C22_Reached ==
    \E r, o \in Clients :
        /\ r # o
        /\ http[r].pc = "with" /\ http[o].pc = "top" /\ http[o].reads = 1
        /\ pc["Web"] = "with"
        /\ Len(webloop.updates) = 1
        /\ webloop.buffer # <<webloop.updates[1]>>


\* The sum of the counts kept in a dictionary.
RECURSIVE SumOver(_, _)
SumOver(d, keys) ==
    IF keys = {} THEN 0
    ELSE LET k == CHOOSE x \in keys : TRUE
         IN  d[k] + SumOver(d, keys \ {k})

SumOf(d) == SumOver(d, DOMAIN d)

\* The positions of the record lines among the first n lines of the log file.
RecordLines(n) == {i \in 1..n : log_file[i].kind = "record"}

\* The positions of the footers in the log file.
Footers == {i \in 1..Len(log_file) : log_file[i].kind = "footer"}

ScriptIndex(line) ==
    CHOOSE k \in 1..Len(LogScript) : LogScript[k] = <<line.level, line.message>>

\* C24: the records of one component stand in the log file in the order in
\* which the component sent them, whatever the records of the other
\* components between them.
C24_ProducerOrder ==
    \A i, j \in RecordLines(Len(log_file)) :
        (i < j /\ log_file[i].component = log_file[j].component)
            => ScriptIndex(log_file[i]) < ScriptIndex(log_file[j])

\* The first two records of one component are in the file with the second
\* record of the other component between them.
C24_Reached ==
    \E i \in RecordLines(Len(log_file)) :
        /\ {i + 1, i + 2} \subseteq RecordLines(Len(log_file))
        /\ log_file[i].component = log_file[i + 2].component
        /\ log_file[i + 1].component # log_file[i].component
        /\ ScriptIndex(log_file[i + 1]) = 2
        /\ ScriptIndex(log_file[i]) = 1
        /\ ScriptIndex(log_file[i + 2]) = 2


\* The sequence a is the beginning of the sequence b.
IsPrefix(a, b) == Len(a) <= Len(b) /\ SubSeq(b, 1, Len(a)) = a

\* C25: the log file is append-only.  Whatever the service does (start,
\* write a record, stop, start again on the same file), the content of the
\* file before a step is the beginning of its content after the step.
C25_AppendOnly == [][IsPrefix(log_file, log_file')]_vars

\* The service runs for the second time and the file holds the new header
\* only, although a record was received and written in the first run.
C25_Reached ==
    /\ logsvc.starts = 2 /\ logsvc.is_running
    /\ logsvc.stops = 1
    /\ lastRecv[LOGGING_CHANNEL] >= 1
    /\ logsvc.messages_logged = 0 /\ logsvc.message = <<>>
    /\ log_file = <<[kind |-> "header"]>>


\* C26: stop_logging on a running service appends one footer, and the
\* footer is the last thing written: a footer is the last line of the file,
\* its total is the number of record lines before it, and once stop_logging
\* has returned the file ends with the footer.
C26_FooterLast ==
    /\ \A i \in Footers :
           /\ i = Len(log_file)
           /\ log_file[i].total = Cardinality(RecordLines(i - 1))
    /\ (logsvc.stops > 0 /\ logsvc.caller = "idle" /\ ~logsvc.is_running)
           => (log_file # <<>> /\ log_file[Len(log_file)].kind = "footer")

\* stop_logging has returned after its join timed out, and the logging
\* thread has then written the record it was holding: a record line
\* follows the footer, whose total does not count it.
C26_Reached ==
    /\ logsvc.stops = 1 /\ logsvc.caller = "idle" /\ ~logsvc.is_running
    /\ logsvc.pc = "dead"
    /\ \E i \in Footers :
           /\ i + 1 = Len(log_file)
           /\ log_file[i + 1].kind = "record"
           /\ log_file[i].total = Cardinality(RecordLines(i - 1))
           /\ logsvc.messages_logged = log_file[i].total + 1


\* The loop of consumer s takes a message from its input in this step.
Receives(s) == lastRecv'[InputOf(s)] # lastRecv[InputOf(s)]

VideoStreamer_get_progress ==
    IF ~running["Streamer"] THEN [frame_id |-> 0, total_frames |-> 0]
    ELSE [frame_id |-> src.current_frame_id, total_frames |-> Len(video)]

MotionDetector_get_stats ==
    [frames_processed |-> det.frame_counter, total_detections |-> det.total_detections]

VideoDisplay_get_stats ==
    [frames_displayed |-> disp.total_frames_displayed,
     detections_drawn |-> disp.total_detections_drawn,
     current_frame_id |-> disp.current_frame_id]

StatsOf(s) ==
    CASE s = "Streamer" -> VideoStreamer_get_progress
      [] s = "Detector" -> MotionDetector_get_stats
      [] s = "Display" -> VideoDisplay_get_stats

\* The endpoints a stage sends on.
OutputsOf(s) ==
    CASE s = "Streamer" -> {STREAMER_TO_DETECTOR}
      [] s = "Detector" -> {DETECTOR_TO_DISPLAY}
      [] s = "Display" -> {DISPLAY_TO_WEB, LOGGING_CHANNEL}

Senders == {"Streamer", "Detector", "Display"}

\* C28: the number of sends of a stage that failed because the queue was
\* full is counted in the stage's statistics.  On the long video, where
\* every socket is connected for the whole run and a send fails for no other
\* reason, whenever sends of a stage on an endpoint have failed, some counter
\* returned by the stage's get_progress / get_stats equals their number.
C28_DropsCounted ==
    video = LongVideo =>
        \A s \in Senders :
            \A e \in OutputsOf(s) :
                dropped[e] > 0 => \E k \in DOMAIN StatsOf(s) : StatsOf(s)[k] = dropped[e]

\* The streamer is running on the long video, whose last frame it failed to
\* send on the full queue, and no counter of get_progress is the number of
\* failures.
C28_Reached ==
    /\ video = LongVideo
    /\ running["Streamer"] /\ pc["Streamer"] = "run"
    /\ mgr["Streamer.sender"] = "connected"
    /\ Len(chan[STREAMER_TO_DETECTOR]) = HWM
    /\ dropped[STREAMER_TO_DETECTOR] = 1
    /\ VideoStreamer_get_progress.frame_id = Len(video)
    /\ \A k \in DOMAIN VideoStreamer_get_progress :
           VideoStreamer_get_progress[k] # dropped[STREAMER_TO_DETECTOR]


\* Handle h has just returned from the call op.
JustReturned(op, h) ==
    applied'.seq # applied.seq /\ applied'.op = op /\ applied'.handle = h

\* The fields of a ZMQManager, and the number of close() calls made on its
\* socket.
Fields(x) ==
    [is_connected |-> x.is_connected, socket |-> x.socket, context |-> x.context,
     closes |-> x.closes]

\* C29: stop() is idempotent.  A stop() on a handle that is not connected
\* (never started, start failed, or stopped before) returns without an
\* error and changes neither the handle nor the endpoint, and the socket of
\* a handle is closed at most once, however often stop() is called.
C29_StopIdempotent ==
    [][\A h \in Handles :
           /\ (JustReturned("stop", h) /\ ~handles[h].is_connected)
                  => /\ Fields(handles'[h]) = Fields(handles[h])
                     /\ chan' = chan
                     /\ applied'.ret = "None"
           /\ JustReturned("stop", h) => ~handles'[h].is_connected
           /\ handles'[h].closes <= 1]_vars

\* stop() has been called on the connected PULL handle and then again, and
\* on the PUSH handle that was never connected.
C29_Reached ==
    /\ handles["pull"].stops = 2 /\ handles["pull"].calls = 3
    /\ handles["pull"].closes = 1 /\ handles["pull"].socket = "closed"
    /\ handles["push"].stops = 1 /\ handles["push"].calls = 1
    /\ handles["push"].closes = 0 /\ handles["push"].socket = "open"
    /\ applied.op = "stop"


\* C30: a handle is not connected when constructed and becomes connected
\* only by a start() that returns True; a send on a handle that is not
\* connected returns False and a receive on one returns None, and neither
\* changes what is queued on the endpoint.
C30_ConnectedByStart ==
    [][\A h \in Handles :
           /\ handles[h].calls = 0 => ~handles[h].is_connected
           /\ (~handles[h].is_connected /\ handles'[h].is_connected)
                  => (JustReturned("start", h) /\ applied'.ret = "True")
           /\ (JustReturned("send", h) /\ ~handles[h].is_connected)
                  => (applied'.ret = "False" /\ chan' = chan /\ nsent' = nsent)
           /\ (JustReturned("receive", h) /\ ~handles[h].is_connected)
                  => (applied'.ret = "None" /\ chan' = chan /\ lastRecv' = lastRecv)]_vars

\* The PUSH handle has sent one message, was stopped, and its next send has
\* returned False; the message is still queued: the PULL handle, on which
\* two calls were made, was never connected and has taken nothing.
C30_Reached ==
    /\ applied.op = "send" /\ applied.ret = "False"
    /\ handles["push"].closes = 1 /\ ~handles["push"].is_connected
    /\ nsent[STREAMER_TO_DETECTOR] = 1 /\ Len(chan[STREAMER_TO_DETECTOR]) = 1
    /\ handles["pull"].calls = 2 /\ ~handles["pull"].is_connected
    /\ handles["pull"].stops = 0 /\ handles["pull"].socket = "open"
    /\ lastRecv[STREAMER_TO_DETECTOR] = 0


\* C31, as stated: binarization is inclusive.  A pixel is foreground exactly
\* when its absolute luminance difference from the stored previous frame is
\* at least the threshold.
C31_InclusiveThreshold ==
    applied.op = "detected" =>
        \A r \in Regions :
            applied.thresh[r] = 255 <=> GrayDiff(applied.frame, applied.prev, r) >= applied.threshold

\* C31, amended: binarization is strict.  A pixel is foreground exactly when
\* its absolute luminance difference from the stored previous frame is
\* greater than the threshold; a difference equal to the threshold is
\* background.
C31_StrictThreshold ==
    applied.op = "detected" =>
        \A r \in Regions :
            /\ applied.thresh[r] \in {0, 255}
            /\ applied.thresh[r] = 255 <=> GrayDiff(applied.frame, applied.prev, r) > applied.threshold

\* A detector with the default threshold has processed a frame in which one
\* rectangle differs from the previous frame by exactly the threshold, and
\* nothing else differs: the rectangle is background.
C31_Reached ==
    /\ applied.op = "detected" /\ applied.threshold = threshold
    /\ \E r \in Regions :
           /\ GrayDiff(applied.frame, applied.prev, r) = threshold
           /\ applied.thresh[r] = 0
           /\ \A q \in Regions \ {r} : GrayDiff(applied.frame, applied.prev, q) = 0


\* The contours _process_frame extracted in the step just taken.
ContoursOf(a) == findContours(dilate(a.thresh, a.dilate_iterations))

\* C32: the minimum-area filter is inclusive and exact.  A contour yields a
\* detection exactly when its area is at least min_area, one detection per
\* such contour, and every detection has an integer area of at least
\* min_area and the type "motion".
C32_InclusiveMinArea ==
    applied.op = "detected" =>
        LET cnts == ContoursOf(applied)
            dets == applied.detections
        IN  /\ \A i \in 1..Len(cnts) :
                   contourArea(cnts[i]) >= applied.min_area
                   <=> \E j \in 1..Len(dets) : dets[j].bbox = boundingRect(cnts[i])
            /\ Len(dets) = Cardinality({i \in 1..Len(cnts) :
                                           contourArea(cnts[i]) >= applied.min_area})
            /\ \A j \in 1..Len(dets) :
                   /\ dets[j].area \in Int
                   /\ dets[j].area >= applied.min_area
                   /\ dets[j].detection_type = "motion"

\* A frame has been processed in which a contour has exactly the minimum
\* area and is reported, with that area.
C32_Reached ==
    /\ applied.op = "detected"
    /\ \E i \in 1..Len(ContoursOf(applied)) :
           /\ contourArea(ContoursOf(applied)[i]) = applied.min_area
           /\ \E j \in 1..Len(applied.detections) :
                  /\ applied.detections[j].bbox = boundingRect(ContoursOf(applied)[i])
                  /\ applied.detections[j].area = applied.min_area


SentEndOfStream(s) == \E i \in 1..Len(eosFwd[s]) : eosFwd[s][i].ok

\* C34: a detector or display stage sends end_of_stream downstream only
\* after it has received end_of_stream from upstream in the same run; a
\* loop that ends because of stop() or of an error sends none.
C34_EndOfStreamOnlyForwarded ==
    \A s \in {"Detector", "Display"} :
        SentEndOfStream(s) => eosSeen[s] # <<>>

\* The detector was stopped while the source was still streaming: it has
\* received no end_of_stream, its loop ended on the stop flag, and its
\* end_of_stream, holding the count of the frames processed so far, was
\* sent on the channel to the display.
C34_Reached ==
    /\ operated = "Detector" /\ starts["Detector"] = 1 /\ nstops = 1 /\ nfails = 0
    /\ pc["Detector"] = "dead"
    /\ eosSeen["Detector"] = <<>>
    /\ SentEndOfStream("Detector")
    /\ eosFwd["Detector"][1].payload.total_frames_processed = det.frame_counter
    /\ eosSeen["Streamer"] = <<>> /\ eosFwd["Streamer"] = <<>>


\* The loop thread of stage s is alive.
Alive(s) == pc[s] \in {"run", "finally"}

\* C35: stop() closes and clears a stage's channels only after the stage's
\* loop has exited: while the loop thread is alive, its final end_of_stream
\* send included, none of the stage's channels has been cleared.
C35_CloseAfterLoopExit ==
    \A s \in Stages :
        Alive(s) => \A m \in ManagersOf(s) : mgr[m] # None

\* stop_detection has returned after its join timed out and has cleared both
\* channels; the loop thread then found the stop flag set and made its
\* end_of_stream send on the cleared result_sender, which raised: nothing
\* was delivered.
C35_Reached ==
    /\ operated = "Detector" /\ starts["Detector"] = 1 /\ nstops = 1 /\ nfails = 0
    /\ caller["Detector"] = "idle" /\ ~running["Detector"]
    /\ pc["Detector"] = "dead"
    /\ mgr["Detector.result_sender"] = None /\ mgr["Detector.frame_receiver"] = None
    /\ Len(eosFwd["Detector"]) = 1 /\ ~eosFwd["Detector"][1].ok
    /\ eosSeen["Detector"] = <<>>


\* The downstream endpoint of a stage that has one.
DownstreamOf(s) ==
    CASE s = "Streamer" -> STREAMER_TO_DETECTOR
      [] s = "Detector" -> DETECTOR_TO_DISPLAY
      [] s = "Display" -> DISPLAY_TO_WEB

\* The messages a step has put on endpoint e.
NewOn(e) ==
    {deserialize(chan[e]'[i][2]) : i \in {j \in 1..Len(chan[e]') : chan[e]'[j][1] > nsent[e]}}

\* C36: once a stage (source, detector or display) has made its
\* end_of_stream send, no later step of the same run puts a frame or a
\* detection result on its downstream endpoint, nor makes a send call there
\* that fails.
C36_EndOfStreamLast ==
    [][\A s \in {"Streamer", "Detector", "Display"} :
           (eosFwd[s] # <<>> /\ starts[s]' = starts[s]) =>
               /\ \A message \in NewOn(DownstreamOf(s)) :
                      message.kind \notin {"FrameData", "DetectionResult"}
               /\ dropped[DownstreamOf(s)]' = dropped[DownstreamOf(s)]
      ]_vars

\* The source was stopped in the middle of its video and has sent its
\* end_of_stream, the detector has received it and sent its own, and the
\* frames of the video that were not read were never sent.
C36_Reached ==
    /\ operated = "Streamer" /\ nstops = 1 /\ starts["Streamer"] = 1
    /\ src.pos < Len(video)
    /\ pc["Streamer"] = "dead" /\ SentEndOfStream("Streamer")
    /\ pc["Detector"] = "dead" /\ SentEndOfStream("Detector")
    /\ eosSeen["Detector"] # <<>>
    /\ nsent[STREAMER_TO_DETECTOR] = src.pos + 1


\* The frame ids of the frames and detection results queued on q, oldest
\* first.
RECURSIVE FrameIds(_)
FrameIds(q) ==
    IF q = <<>> THEN <<>>
    ELSE LET message == deserialize(Head(q)[2])
         IN  IF message.kind \in {"FrameData", "DetectionResult"}
             THEN <<message.frame_id>> \o FrameIds(Tail(q))
             ELSE FrameIds(Tail(q))

Increasing(ids) == \A i, j \in 1..Len(ids) : i < j => ids[i] < ids[j]

\* C37: while the source has been started once, so that the frame ids it
\* gives out are strictly increasing, on every endpoint of the pipeline the
\* frames and results queued have strictly increasing frame ids, and every
\* one of them has a greater frame id than a frame or result just delivered
\* from that endpoint: each stage sends in the order in which it received,
\* and nothing twice.
C37_OrderPreserved ==
    [][starts["Streamer"]' <= 1 =>
           \A e \in {STREAMER_TO_DETECTOR, DETECTOR_TO_DISPLAY, DISPLAY_TO_WEB} :
               /\ Increasing(FrameIds(chan[e]'))
               /\ lastRecv[e]' # lastRecv[e] =>
                      Increasing(FrameIds(<<Head(chan[e])>>) \o FrameIds(chan[e]'))
      ]_vars

\* On the long video the source has lost a frame to a full queue, the
\* detector has processed the frames that were queued, the display has
\* received and forwarded results, and further results, in the order of
\* their frames, are queued for the display and for the web streamer.
C37_Reached ==
    /\ video = LongVideo
    /\ dropped[STREAMER_TO_DETECTOR] >= 1
    /\ lastRecv[DETECTOR_TO_DISPLAY] >= 2
    /\ nsent[DISPLAY_TO_WEB] >= 2
    /\ Len(FrameIds(chan[DETECTOR_TO_DISPLAY])) >= 2
    /\ Len(FrameIds(chan[DISPLAY_TO_WEB])) >= 2
    /\ FrameIds(chan[DETECTOR_TO_DISPLAY])[1]
           > FrameIds(chan[DISPLAY_TO_WEB])[Len(FrameIds(chan[DISPLAY_TO_WEB]))]


\* The number of results the detector has successfully sent, in the runs in
\* which nothing but the detector, started once, has put messages on its
\* downstream endpoint: the messages sent there less its end_of_stream.
ResultsSent == nsent[DETECTOR_TO_DISPLAY] - Len(Forwarded("Detector"))

OnlyDetectorSends ==
    /\ starts["Detector"] <= 1
    /\ video = LongVideo \/ operated # None

\* What C38 states about the counters, under the premise given.
CounterConservation(premise) ==
    premise =>
        /\ OnlyDetectorSends => ResultsSent <= det.frame_counter
        /\ det.frame_counter <= src.current_frame_id
        /\ \A i \in 1..Len(eosFwd["Detector"]) :
               \A j \in 1..Len(eosSeen["Detector"]) :
                   eosFwd["Detector"][i].payload.total_frames_processed
                       <= eosSeen["Detector"][j].total_frames

C39_ControlIgnored ==
    [][\A s \in Consumers :
           LET e == InputOf(s)
               message == deserialize(Head(chan[e])[2])
           IN  (/\ lastRecv[e]' # lastRecv[e]
                /\ message.kind = "SystemMessage"
                /\ message.message_type # "end_of_stream") =>
                   /\ chan[e]' = Tail(chan[e])
                   /\ \A f \in Endpoints \ {e} : chan[f]' = chan[f]
                   /\ nsent' = nsent /\ dropped' = dropped
                   /\ src' = src /\ det' = det /\ disp' = disp /\ web' = web
                   /\ detSum' = detSum
                   /\ eosSeen' = eosSeen /\ eosFwd' = eosFwd
                   /\ running' = running /\ mgr' = mgr
                   /\ pc[s] = "run" /\ pc[s]' = "run"
      ]_vars

\* The display has received a shutdown message that was queued for it
\* before the detector's first result, then that result: it has displayed
\* one frame and forwarded one result, and its loop runs.
C39_Reached ==
    /\ operated = None /\ video # LongVideo
    /\ applied = [op |-> "ignored", stage |-> "Display", message_type |-> "shutdown"]
    /\ lastRecv[DETECTOR_TO_DISPLAY] = 2
    /\ nsent[DETECTOR_TO_DISPLAY] >= 2 /\ nsent[STREAMER_TO_DETECTOR] >= 1
    /\ det.frame_counter >= 1
    /\ disp.total_frames_displayed = 1
    /\ nsent[DISPLAY_TO_WEB] = 1
    /\ eosSeen["Display"] = <<>> /\ eosFwd["Display"] = <<>>
    /\ pc["Display"] = "run"


\* A stop_*() call on stage s returns in this step: after its join, or at
\* once because the stage was not running.
StopReturns(s) ==
    \/ caller[s] = "joining" /\ caller[s]' = "idle"
    \/ nstops' = nstops + 1 /\ caller[s]' = "idle" /\ s = operated

\* C40: when a stop_*() call on a stage returns, no channel of the stage
\* is open, also when the stage's loop had ended by itself before the call.
C40_ClosedAfterStop ==
    [][\A s \in Stages :
           StopReturns(s) => \A m \in ManagersOf(s) : mgr[m]' # "connected"
      ]_vars

\* The source has read its whole video and sent its end_of_stream, its loop
\* thread has ended, and stop_streaming was then called and has returned:
\* the sender is still connected.
C40_Reached ==
    /\ operated = "Streamer" /\ starts["Streamer"] = 1 /\ nfails = 0
    /\ src.pos = Len(video) /\ Len(video) > 0
    /\ pc["Streamer"] = "dead" /\ SentEndOfStream("Streamer")
    /\ nstops = 1 /\ caller["Streamer"] = "idle" /\ ~stop_event["Streamer"]
    /\ ~running["Streamer"]
    /\ mgr["Streamer.sender"] = "connected"
====
